---- MODULE Spec2Model ----
(***************************************************************************)
(* Session multiplexing core of agent-orange: the CLI session manager      *)
(* (cli-session-manager.ts), the WebSocket token codec (ws-auth.ts) and    *)
(* the upgrade handler of the server entry point (index.ts).               *)
(*                                                                         *)
(* Node runs every handler to completion on one event loop, so each        *)
(* action below is one run-to-completion section of the code: from a call  *)
(* or an event up to the next await, timer or I/O callback.                *)
(***************************************************************************)
EXTENDS Bags, FiniteSets, Integers, Naturals, Sequences, TLC

(***************************************************************************)
(* Bounds of the model.                                                    *)
(***************************************************************************)
\* sessions ever created (randomUUID ids are modelled as 1, 2, ...)
MaxIds == 2
\* close calls waiting on one session's ptyKilled promise at one time
MaxCloses == 2
\* transport connections ever opened
MaxConns == 2
\* output chunks one child emits
MaxChunks == 2
\* the clock, in hours
MaxNow == 2
\* input writes one child receives
MaxWrites == 2
\* the clock of the idle sweep, in hours
MaxIdleNow == 50
\* characters by which a buffer exceeds BUFFER_LIMIT
MaxOver == 2
\* BUFFER_LIMIT (64 * 1024 in the source) scaled to characters of the model
BUFFER_LIMIT == 3

(***************************************************************************)
(* Program constants.                                                      *)
(***************************************************************************)
MAX_SESSIONS_PER_PROJECT == 10
MAX_TOTAL_SESSIONS == 50
\* 60 * 60 * 1000 ms, in hours
TOKEN_TTL == 1
\* 48 * 60 * 60 * 1000 ms, in hours
SESSION_IDLE_TIMEOUT == 48

ESC == "E"
NL == "n"
CR == "r"

VARIABLES
    sessions,   \* this.sessions: id -> CliSessionRecord
    tools,      \* this.tools[t].available: "undefined", "true" or "false"
    creating,   \* bag of createSession calls suspended at an await of resolveCwd
    closing,    \* id -> number of close calls awaiting ptyKilled (timer armed)
    immediates, \* ids whose setImmediate callback has not run yet
    ptys,       \* ids whose child process is alive
    nextId,     \* the next fresh session id
    conns,      \* connection -> state of the transport connection
    now,        \* Date.now(), in hours
    issued,     \* the tokens generateSessionToken has returned
    records,    \* id -> status of every record created, in the table or not
    idleCheckInterval,  \* the idle sweep's interval is armed
    projects,   \* ProjectManager.projects: project id -> ProjectInfo
    wtDirs,     \* the worktree directories that exist on disk
    gitWorktrees,   \* the linked worktrees git has on record for the repository
    listing,    \* buildWorktreeResponses calls suspended at an await
    loaded,     \* ProjectManager.loaded
    dirty,      \* ProjectManager.dirty
    configFile, \* the projects file: <<>> when missing, else <<its content>>
    writing,    \* the fs.writeFile calls of saveProjects in flight
    loading,    \* where loadProjects, started by the constructor, stands
    store,      \* the client's useCliSessionsStore state
    fetches,    \* the client's requests in flight
    served,     \* the server: the ids of the sessions it lists, the next id
    reply       \* what the step just taken returned or threw ("none": nothing)

vars == <<sessions, tools, creating, closing, immediates, ptys, nextId, conns,
          now, issued, records, idleCheckInterval, projects, wtDirs, gitWorktrees,
          listing, loaded, dirty, configFile, writing, loading, store, fetches,
          served, reply>>

\* the variables no operation of the session manager or of the upgrade handler
\* touches
diskVars == <<loaded, configFile, loading>>

\* the variables of the client
clientVars == <<store, fetches, served>>

restVars == <<issued, projects, wtDirs, gitWorktrees, listing, diskVars, dirty, writing,
              clientVars>>

\* the variables of the session manager and of the bridge
sessionVars == <<sessions, tools, creating, closing, immediates, ptys, nextId, conns,
                 now, records, idleCheckInterval>>

\* the variables most operations of the session manager leave alone
otherVars == <<restVars, records, idleCheckInterval>>

Ids == 1..MaxIds
ConnIds == 1..MaxConns
None == [op |-> "none"]

(***************************************************************************)
(* The host: file system, home and temp directories, installed tools.      *)
(* Paths are sequences of components; <<>> stands for the empty string.    *)
(***************************************************************************)
HomeDir == <<"home", "u">>
TmpDir == <<"tmp">>

\* symbolic links of the host
Links ==
    [from : {<<"tmp">>}, to : {<<"private", "tmp">>}]
    \cup [from : {<<"home", "u", "link">>}, to : {<<"etc">>}]
    \cup [from : {<<"etc", "back">>}, to : {<<"home", "u", "proj">>}]

Dirs == {<<"home">>, <<"home", "u">>, <<"home", "u", "proj">>, <<"etc">>,
         <<"private">>, <<"private", "tmp">>, <<"private", "tmp", "w">>}
Files == {<<"home", "u", "notes">>}

IsPrefix(p, q) == Len(p) <= Len(q) /\ SubSeq(q, 1, Len(p)) = p

\* path.resolve: drops "." and folds ".." (inputs are absolute)
RECURSIVE pathResolve(_)
pathResolve(p) ==
    IF p = <<>> THEN <<>>
    ELSE LET front == pathResolve(SubSeq(p, 1, Len(p) - 1))
             last == p[Len(p)]
         IN  IF last = "." THEN front
             ELSE IF last = ".."
                  THEN (IF front = <<>> THEN <<>> ELSE SubSeq(front, 1, Len(front) - 1))
                  ELSE Append(front, last)

\* fs.realpath: replaces the longest linked prefix until none is left
RECURSIVE realpath(_)
realpath(p) ==
    LET hits == {l \in Links : IsPrefix(l.from, p)}
    IN  IF hits = {} THEN p
        ELSE LET l == CHOOSE x \in hits : \A y \in hits : Len(y.from) <= Len(x.from)
             IN  realpath(l.to \o SubSeq(p, Len(l.from) + 1, Len(p)))

\* fs.stat follows links: "dir", "file" or "none" (ENOENT)
statKind(p) ==
    IF realpath(p) \in Dirs THEN "dir"
    ELSE IF realpath(p) \in Files THEN "file" ELSE "none"

\* the `within` test of resolveCwd: equal to the root or starts with root + sep
within(realCwd, realHome, realTmp) ==
    \/ realCwd = realHome
    \/ (Len(realCwd) > Len(realHome) /\ IsPrefix(realHome, realCwd))
    \/ realCwd = realTmp
    \/ (Len(realCwd) > Len(realTmp) /\ IsPrefix(realTmp, realCwd))


InstalledTools == {"codex", "claude"}
ToolIds == {"codex", "claude", "opencode"}

(***************************************************************************)
(* The project registry (project-manager.ts).  Titles and worktree ids are *)
(* sequences of tokens: words, capitalised words and separator characters. *)
(***************************************************************************)
Separators == {" ", "/", "_", "-"}

\* toLowerCase, token by token
lower(tok) ==
    CASE tok = "Default" -> "default"
      [] tok = "New" -> "new"
      [] tok = "UI" -> "ui"
      [] OTHER -> tok

\* replace(/[^a-z0-9]+/g, "-") then replace(/^-+/, ""), left to right
RECURSIVE dashed(_)
dashed(title) ==
    IF title = <<>> THEN <<>>
    ELSE LET front == dashed(SubSeq(title, 1, Len(title) - 1))
             tok == lower(title[Len(title)])
         IN  IF tok \notin Separators THEN Append(front, tok)
             ELSE IF front = <<>> \/ front[Len(front)] = "-" THEN front
             ELSE Append(front, "-")

slugify(title) ==
    LET d == dashed(title)
        trimmed == IF d # <<>> /\ d[Len(d)] = "-" THEN SubSeq(d, 1, Len(d) - 1) ELSE d
    IN  IF trimmed = <<>> THEN <<"worktree">> ELSE trimmed

\* String.prototype.trim
RECURSIVE trim(_)
trim(title) ==
    IF title = <<>> THEN <<>>
    ELSE IF title[1] = " " THEN trim(Tail(title))
    ELSE IF title[Len(title)] = " " THEN trim(SubSeq(title, 1, Len(title) - 1))
    ELSE title

DefaultId == <<"default">>

\* a path exists: fs.realpath resolves it
exists(path) == realpath(path) \in Dirs \cup Files \cup wtDirs

\* normalizePath: path.resolve, trailing slashes stripped
normalizePath(value) == pathResolve(value)

\* canonicalizePath: the real path, or the normalized path when it cannot be
\* resolved
canonicalOf(normalized) ==
    IF exists(normalized) THEN normalizePath(realpath(normalized)) ELSE normalized

canonicalizePath(value) == canonicalOf(normalizePath(value))

\* the first 16 hex digits of the SHA-256 of the path, taken as free of collisions
getGitProjectId(projectPath) == [sha256 |-> projectPath]

\* the position of the first worktree with this id, 0 when there is none
findById(worktrees, id) ==
    LET hits == {i \in 1..Len(worktrees) : worktrees[i].id = id}
    IN  IF hits = {} THEN 0 ELSE CHOOSE i \in hits : \A j \in hits : i <= j

\* the list with the entry "default" set to the project path and title,
\* or with such an entry pushed
withDefault(worktrees, at, normalizedProjectPath) ==
    IF at # 0
    THEN [worktrees EXCEPT ![at].path = normalizedProjectPath,
                           ![at].title = <<"default">>]
    ELSE Append(worktrees, [id |-> DefaultId, path |-> normalizedProjectPath,
                            title |-> <<"default">>])

(***************************************************************************)
(* Project settings.  A number is held in tenths, so that Math.floor has   *)
(* something to cut; an optional value is <<>> (undefined) or <<value>>.   *)
(* A settings object without `codex` is one whose two fields are <<>>.     *)
(***************************************************************************)
DEFAULT_PROMPT_LIMIT == 8000
MIN_PROMPT_LIMIT == 1000
MAX_PROMPT_LIMIT == 20000

\* a whole number as a number
whole(n) == n * 10

\* Math.floor, Math.min and Math.max
floor(x) == (x \div 10) * 10
mathMin(a, b) == IF a <= b THEN a ELSE b
mathMax(a, b) == IF a >= b THEN a ELSE b

\* optional ?? fallback
orElse(optional, fallback) == IF optional = <<>> THEN fallback ELSE optional[1]

\* settings?.codex?.promptCharLimit and settings?.codex?.autoPrompt
promptCharLimitOf(settings) ==
    IF settings = <<>> THEN <<>> ELSE settings[1].codex.promptCharLimit

autoPromptOf(settings) ==
    IF settings = <<>> THEN <<>> ELSE settings[1].codex.autoPrompt

\* applyDefaultSettings that stores the limit as it finds it
applyDefaultSettingsAsGiven(settings) ==
    [codex |-> [autoPrompt |-> <<orElse(autoPromptOf(settings), TRUE)>>,
                promptCharLimit |->
                    <<orElse(promptCharLimitOf(settings), whole(DEFAULT_PROMPT_LIMIT))>>]]

normalizedLimit(currentLimit) ==
    mathMin(whole(MAX_PROMPT_LIMIT),
            mathMax(whole(MIN_PROMPT_LIMIT), floor(currentLimit)))

applyDefaultSettings(settings) ==
    [codex |-> [autoPrompt |-> <<orElse(autoPromptOf(settings), TRUE)>>,
                promptCharLimit |->
                    <<normalizedLimit(orElse(promptCharLimitOf(settings),
                                             whole(DEFAULT_PROMPT_LIMIT)))>>]]

\* the map over the worktrees: canonical path, fixed or non-empty title
mapped(worktree, normalizedProjectPath) ==
    [id |-> worktree.id,
     path |-> canonicalizePath(IF worktree.path = <<>> THEN normalizedProjectPath
                               ELSE worktree.path),
     title |-> IF worktree.id = DefaultId THEN <<"default">>
               ELSE IF worktree.title = <<>> THEN worktree.id
               ELSE worktree.title]

ensuredAt(info, worktrees, normalizedProjectPath) ==
    [info EXCEPT
        !.path = normalizedProjectPath,
        !.worktrees = [i \in 1..Len(worktrees) |->
                          mapped(worktrees[i], normalizedProjectPath)],
        !.settings = <<applyDefaultSettings(@)>>]

ensuredWith(info, normalizedProjectPath) ==
    ensuredAt(info,
              withDefault(info.worktrees, findById(info.worktrees, DefaultId),
                          normalizedProjectPath),
              normalizedProjectPath)

\* the title put back that the entry of this id had before
titleKept(ensured, worktrees, at) ==
    IF at = 0 \/ worktrees[at].title = <<>> THEN ensured
    ELSE [ensured EXCEPT !.worktrees[at].title = worktrees[at].title]

\* ensureDefaultWorktree that keeps the title it finds on the default entry
ensureDefaultWorktreeKeepsTitle(info) ==
    titleKept(ensuredWith(info, canonicalizePath(info.path)), info.worktrees,
              findById(info.worktrees, DefaultId))

\* ensureDefaultWorktree(info): the info it leaves
ensureDefaultWorktree(info) == ensuredWith(info, canonicalizePath(info.path))

\* the decimal form of a counter
Digits == <<"1", "2", "3", "4", "5">>

\* generateWorktreeId(info, title)
RECURSIVE nextCandidate(_, _, _)
nextCandidate(reserved, base, counter) ==
    LET candidate == base \o <<"-", Digits[counter]>>
    IN  IF candidate \in reserved \/ candidate = DefaultId
        THEN nextCandidate(reserved, base, counter + 1)
        ELSE candidate

generateWorktreeId(info, title) ==
    LET base == slugify(title)
        reserved == {info.worktrees[i].id : i \in 1..Len(info.worktrees)}
    IN  IF base \notin reserved /\ base # DefaultId THEN base
        ELSE nextCandidate(reserved, base, 2)

\* activeSessionId: null
NoSession == 0

\* the store as create() builds it, no request sent
StoreInit ==
    /\ store = [sessions |-> <<>>, loading |-> FALSE, error |-> "null",
                activeSessionId |-> NoSession]
    /\ fetches = {}
    /\ served = [list |-> <<>>, next |-> 1]

RegistryInit ==
    /\ projects = <<>>
    /\ wtDirs = {}
    /\ gitWorktrees = <<>>
    /\ listing = {}
    /\ loaded = FALSE
    /\ dirty = FALSE
    /\ configFile = <<>>
    /\ writing = {}
    /\ loading = [pc |-> "read"]

(***************************************************************************)
(* ProjectManager.saveProjects.  The file is written by fs.writeFile, an   *)
(* await: the write is in flight from the call to its completion, and      *)
(* `dirty` is cleared when it completes.                                   *)
(***************************************************************************)
MaxSaves == 2

\* what saveProjects serializes: every info with its settings normalized
persisted(table) ==
    [id \in DOMAIN table |-> [table[id] EXCEPT !.settings = <<applyDefaultSettings(@)>>]]

\* saveProjects without its test of `loaded`
saveProjectsUnloaded(isLoaded, isDirty) == isDirty

\* saveProjects goes on to write the file
saveProjectsWrites(isLoaded, isDirty) == isLoaded /\ isDirty

freeWrite == CHOOSE n \in 1..(MaxSaves + 1) : \A w \in writing : w.n # n

\* `await saveProjects()` as the last call of a section that has set
\* projects' and dirty', and `then`, what the caller does once it returns
saveProjectsThen(then) ==
    IF saveProjectsWrites(loaded, dirty')
    THEN /\ writing' = writing \cup
                {[n |-> freeWrite, data |-> persisted(projects'), then |-> then]}
         /\ reply' = None
    ELSE /\ reply' = then
         /\ UNCHANGED writing

(***************************************************************************)
(* Token codec (ws-auth.ts).  A token string is modelled by the list of    *)
(* segments token.split(".") yields; NoToken is a missing query parameter. *)
(***************************************************************************)
WS_SECRET == "server-secret"
OtherKey == "guessed-key"
NoToken == <<>>
EmptySeg == [raw |-> ""]
JunkSeg == [raw |-> "x"]

\* Buffer.from(JSON.stringify(payload)).toString("base64url")
encodePayload(payload) == [b64 |-> [json |-> payload]]

\* createHmac("sha256", key).update(payloadB64).digest("base64url")
hmac(key, payloadB64) == [mac |-> key, over |-> payloadB64]

generateSessionToken(sessionId, time) ==
    LET payload == [sessionId |-> sessionId, exp |-> time + TOKEN_TTL]
        payloadB64 == encodePayload(payload)
    IN  <<payloadB64, hmac(WS_SECRET, payloadB64)>>

\* JSON.parse(Buffer.from(payloadB64, "base64url")) succeeds on an encoded payload
parses(seg) == "b64" \in DOMAIN seg /\ "json" \in DOMAIN seg.b64

Invalid == [valid |-> FALSE]

\* verifySessionToken without the test of payload.exp
verifySessionTokenNoExpiry(token, time) ==
    IF Len(token) < 2 THEN Invalid
    ELSE LET payloadB64 == token[1]
             signature == token[2]
         IN  IF payloadB64 = EmptySeg \/ signature = EmptySeg THEN Invalid
             ELSE IF signature # hmac(WS_SECRET, payloadB64) THEN Invalid
             ELSE IF ~parses(payloadB64) THEN Invalid
             ELSE LET payload == payloadB64.b64.json
                  IN  [valid |-> TRUE, sessionId |-> payload.sessionId,
                       exp |-> payload.exp]

\* the destructuring [payloadB64, signature] = token.split(".") reads the first
\* two segments and ignores any further one
verifySessionToken(token, time) ==
    IF Len(token) < 2 THEN Invalid
    ELSE LET payloadB64 == token[1]
             signature == token[2]
         IN  IF payloadB64 = EmptySeg \/ signature = EmptySeg THEN Invalid
             ELSE IF signature # hmac(WS_SECRET, payloadB64) THEN Invalid
             ELSE IF ~parses(payloadB64) THEN Invalid
             ELSE LET payload == payloadB64.b64.json
                  IN  IF payload.exp < time THEN Invalid
                      ELSE [valid |-> TRUE, sessionId |-> payload.sessionId,
                            exp |-> payload.exp]

(***************************************************************************)
(* Output buffer (cli-session-manager.ts).  Buffers are sequences of       *)
(* characters.                                                             *)
(***************************************************************************)
\* buf.indexOf(ch, start), as a 1-based position, 0 when absent
indexOf(buf, ch, start) ==
    LET hits == {i \in 1..Len(buf) : i >= start + 1 /\ buf[i] = ch}
    IN  IF hits = {} THEN 0 ELSE CHOOSE i \in hits : \A j \in hits : i <= j

\* trimToSafeStart that always cuts at the byte offset
trimToSafeStartHardCut(buf) ==
    IF Len(buf) <= BUFFER_LIMIT THEN buf
    ELSE SubSeq(buf, Len(buf) - BUFFER_LIMIT + 1, Len(buf))

trimToSafeStart(buf) ==
    IF Len(buf) <= BUFFER_LIMIT THEN buf
    ELSE LET start == Len(buf) - BUFFER_LIMIT
             nextEsc == indexOf(buf, ESC, start)
             nextNl == indexOf(buf, NL, start)
             nextCr == indexOf(buf, CR, start)
         IN  IF nextEsc # 0 THEN SubSeq(buf, nextEsc, Len(buf))
             ELSE IF nextNl # 0 THEN SubSeq(buf, nextNl + 1, Len(buf))
             ELSE IF nextCr # 0 THEN SubSeq(buf, nextCr + 1, Len(buf))
             ELSE SubSeq(buf, start + 1, Len(buf))

appendBuffer(buffer, chunk) ==
    IF Len(buffer \o chunk) > BUFFER_LIMIT
    THEN trimToSafeStart(buffer \o chunk)
    ELSE buffer \o chunk

\* characters of terminal output: the escape introducer, a parameter byte and a
\* final byte of an escape sequence, a printable character, newline, carriage
\* return
Alphabet == {ESC, "1", "m", "a", NL, CR}

\* the buffers of up to n characters
RECURSIVE Strings(_)
Strings(n) ==
    IF n = 0 THEN {<<>>}
    ELSE Strings(n - 1) \cup
         {Append(b, ch) : b \in {x \in Strings(n - 1) : Len(x) = n - 1}, ch \in Alphabet}

\* chunks a child may emit
Chunks == {<<"a", "b">>, <<ESC, "c">>}

\* the buffers trimToSafeStart is given: up to MaxOver characters over the limit
Buffers == Strings(BUFFER_LIMIT + MaxOver)

(***************************************************************************)
(* Connections.                                                            *)
(***************************************************************************)
IdleConn ==
    [st |-> "idle", sid |-> 0, tok |-> NoToken, at |-> 0, open |-> FALSE,
     inbox |-> <<>>, since |-> 0]
ClosedConn == [IdleConn EXCEPT !.st = "closed"]

\* socket.send(message): delivered unless the transport has failed, in which
\* case the send fails and broadcast's catch only logs it
send(conn, msg) ==
    IF conn.open THEN [conn EXCEPT !.inbox = Append(@, msg)] ELSE conn

broadcast(cs, sockets, msg) ==
    [c \in DOMAIN cs |-> IF c \in sockets THEN send(cs[c], msg) ELSE cs[c]]

\* cleanup closes every attached socket
closeSockets(cs, sockets) ==
    [c \in DOMAIN cs |-> IF c \in sockets THEN ClosedConn ELSE cs[c]]

remove(f, k) == [x \in DOMAIN f \ {k} |-> f[x]]

\* cleanup(sessionId): the session table and the connections it leaves
cleanupSessions(ss, sessionId) ==
    IF sessionId \in DOMAIN ss THEN remove(ss, sessionId) ELSE ss

cleanupConns(ss, cs, sessionId) ==
    IF sessionId \in DOMAIN ss THEN closeSockets(cs, ss[sessionId].sockets) ELSE cs

projectSessions(ss, projectId) ==
    Cardinality({s \in DOMAIN ss : ss[s].projectId = projectId})


(***************************************************************************)
(* Inputs.                                                                 *)
(***************************************************************************)
CapProjects == {"p1", "p2", "p6"}
ToolInputs == ToolIds \cup {"bash"}
CwdInputs ==
    {<<>>, <<"home", "u", "proj">>, <<"home", "u">>, <<"tmp", "w">>, <<"etc">>,
     <<"home", "u", "link">>, <<"etc", "back">>, <<"home", "u", "..", "..", "etc">>,
     <<"home", "u", "notes">>, <<"home", "u", "gone">>}
ExitCodes == {0, 1}

\* tokens a client may present: those the routes have minted for a session that
\* was created, and altered forms of them
mintedTokens ==
    {generateSessionToken(sid, t) : sid \in 1..(nextId - 1), t \in 0..now}

altered(tok) ==
    {tok,
     <<tok[1], hmac(OtherKey, tok[1])>>,
     <<encodePayload([tok[1].b64.json EXCEPT !.exp = @ + 1]), tok[2]>>,
     <<tok[1]>>,
     <<tok[1], tok[2], JunkSeg>>}

presentableTokens ==
    {NoToken, <<EmptySeg>>} \cup UNION {altered(tok) : tok \in mintedTokens}

(***************************************************************************)
(* Initial state: the manager just constructed, the tool probes started.   *)
(***************************************************************************)
Init ==
    /\ sessions = <<>>
    /\ tools = [t \in ToolIds |-> "undefined"]
    /\ creating = EmptyBag
    /\ closing = EmptyBag
    /\ immediates = {}
    /\ ptys = {}
    /\ nextId = 1
    /\ conns = [c \in ConnIds |-> IdleConn]
    /\ now = 0
    /\ issued = {}
    /\ records = [k \in DOMAIN sessions |-> sessions[k].status]
    /\ idleCheckInterval = TRUE
    /\ RegistryInit
    /\ StoreInit
    /\ reply = None

(***************************************************************************)
(* detectToolAvailability: one probe (execFile command --version) settles  *)
(***************************************************************************)
DetectToolAvailability(tool) ==
    /\ tools[tool] = "undefined"
    /\ tools' = [tools EXCEPT ![tool] = IF tool \in InstalledTools THEN "true" ELSE "false"]
    /\ reply' = None
    /\ UNCHANGED <<sessions, creating, closing, immediates, ptys, nextId, conns, now>>
    /\ UNCHANGED otherVars

(***************************************************************************)
(* createSession, first section: the capacity and tool checks, then        *)
(* resolveCwd up to its await of fs.stat.                                  *)
(***************************************************************************)
\* createChecks with both ceilings compared by > instead of >=
createChecksOffByOne(projectId, tool, cwd) ==
    IF Cardinality(DOMAIN sessions) > MAX_TOTAL_SESSIONS
    THEN "Maximum total sessions reached"
    ELSE IF projectSessions(sessions, projectId) > MAX_SESSIONS_PER_PROJECT
    THEN "Maximum sessions per project reached"
    ELSE IF tool \notin DOMAIN tools
    THEN "Unsupported CLI tool"
    ELSE IF tools[tool] = "false"
    THEN "not available on this system"
    ELSE IF cwd = <<>>
    THEN "cwd is required"
    ELSE "pass"

createChecks(projectId, tool, cwd) ==
    IF Cardinality(DOMAIN sessions) >= MAX_TOTAL_SESSIONS
    THEN "Maximum total sessions reached"
    ELSE IF projectSessions(sessions, projectId) >= MAX_SESSIONS_PER_PROJECT
    THEN "Maximum sessions per project reached"
    ELSE IF tool \notin DOMAIN tools
    THEN "Unsupported CLI tool"
    ELSE IF tools[tool] = "false"
    THEN "not available on this system"
    ELSE IF cwd = <<>>
    THEN "cwd is required"
    ELSE "pass"

createReply(projectId, tool, cwd, outcome) ==
    [op |-> "createSession", projectId |-> projectId, tool |-> tool, cwd |-> cwd,
     outcome |-> outcome]

CreateSessionBegin(projectId, tool, cwd) ==
    LET outcome == createChecks(projectId, tool, cwd)
    IN  /\ IF outcome = "pass"
           THEN /\ creating' = creating (+) SetToBag({[projectId |-> projectId,
                                   tool |-> tool, cwd |-> cwd, pc |-> "stat"]})
                /\ reply' = None
           ELSE /\ creating' = creating
                /\ reply' = createReply(projectId, tool, cwd, outcome)
        /\ UNCHANGED <<sessions, tools, closing, immediates, ptys, nextId, conns, now>>
        /\ UNCHANGED otherVars

(***************************************************************************)
(* resolveCwd, second section: fs.stat has settled.                        *)
(***************************************************************************)
CreateSessionStat(call) ==
    /\ call \in BagToSet(creating)
    /\ call.pc = "stat"
    /\ LET normalized == pathResolve(call.cwd)
           kind == statKind(normalized)
           rest == creating (-) SetToBag({call})
       IN  IF kind = "none"
           THEN /\ creating' = rest
                /\ reply' = createReply(call.projectId, call.tool, call.cwd, "ENOENT")
           ELSE IF kind # "dir"
           THEN /\ creating' = rest
                /\ reply' = createReply(call.projectId, call.tool, call.cwd,
                                        "cwd must be a directory")
           ELSE /\ creating' = rest (+) SetToBag({[call EXCEPT !.pc = "realpath"]})
                /\ reply' = None
    /\ UNCHANGED <<sessions, tools, closing, immediates, ptys, nextId, conns, now>>
    /\ UNCHANGED otherVars

(***************************************************************************)
(* resolveCwd, last section, and the rest of createSession: the real paths *)
(* have settled; the sandbox test, the spawn, the insertion.               *)
(***************************************************************************)
\* resolveCwd testing the normalized path where the code tests the real path
resolveCwdUnresolved(inputPath) ==
    LET normalized == pathResolve(inputPath)
        realHome == pathResolve(realpath(HomeDir))
        realTmp == pathResolve(realpath(TmpDir))
    IN  [ok |-> within(normalized, HomeDir, TmpDir)
                  \/ within(normalized, realHome, realTmp),
         path |-> normalized]

\* what resolveCwd returns (ok, with the real path) or that it throws (not ok)
resolveCwd(inputPath) ==
    LET normalized == pathResolve(inputPath)
        realCwd == pathResolve(realpath(normalized))
        realHome == pathResolve(realpath(HomeDir))
        realTmp == pathResolve(realpath(TmpDir))
    IN  [ok |-> within(realCwd, realHome, realTmp), path |-> realCwd]

newRecord(call, resolvedCwd) ==
    [projectId |-> call.projectId, cwd |-> resolvedCwd, tool |-> call.tool,
     status |-> "starting", buffer |-> <<>>, sockets |-> {}, emitted |-> <<>>,
     lastActivity |-> now, stdin |-> <<>>, size |-> <<120, 32>>]

\* CreateSessionFinish with the record put into the table before the spawn
CreateSessionFinishInsertFirst(call, spawnThrows) ==
    /\ call \in BagToSet(creating)
    /\ call.pc = "realpath"
    /\ creating' = creating (-) SetToBag({call})
    /\ LET resolved == resolveCwd(call.cwd)
           resolvedCwd == resolved.path
           inserted == [i \in DOMAIN sessions \cup {nextId} |->
                          IF i = nextId THEN newRecord(call, resolvedCwd)
                          ELSE sessions[i]]
       IN  IF ~resolved.ok
           THEN /\ reply' = createReply(call.projectId, call.tool, call.cwd,
                                "cwd must be within the home or temp directory")
                /\ UNCHANGED <<sessions, immediates, ptys, nextId>>
           ELSE IF spawnThrows
           THEN /\ reply' = createReply(call.projectId, call.tool, call.cwd, "spawn failed")
                /\ sessions' = inserted
                /\ nextId' = nextId + 1
                /\ UNCHANGED <<immediates, ptys>>
           ELSE /\ sessions' = inserted
                /\ ptys' = ptys \cup {nextId}
                /\ immediates' = immediates \cup {nextId}
                /\ nextId' = nextId + 1
                /\ reply' = createReply(call.projectId, call.tool, call.cwd, "ok")
    /\ records' = IF nextId' # nextId
                  THEN [i \in DOMAIN records \cup {nextId} |->
                          IF i = nextId THEN "starting" ELSE records[i]]
                  ELSE records
    /\ UNCHANGED <<tools, closing, conns, now>>
    /\ UNCHANGED <<restVars, idleCheckInterval>>

CreateSessionFinish(call, spawnThrows) ==
    /\ call \in BagToSet(creating)
    /\ call.pc = "realpath"
    /\ creating' = creating (-) SetToBag({call})
    /\ LET resolved == resolveCwd(call.cwd)
           resolvedCwd == resolved.path
       IN  IF ~resolved.ok
           THEN /\ reply' = createReply(call.projectId, call.tool, call.cwd,
                                "cwd must be within the home or temp directory")
                /\ UNCHANGED <<sessions, immediates, ptys, nextId>>
           ELSE IF spawnThrows
           THEN /\ reply' = createReply(call.projectId, call.tool, call.cwd, "spawn failed")
                /\ UNCHANGED <<sessions, immediates, ptys, nextId>>
           ELSE /\ sessions' = [i \in DOMAIN sessions \cup {nextId} |->
                                  IF i = nextId THEN newRecord(call, resolvedCwd)
                                  ELSE sessions[i]]
                /\ ptys' = ptys \cup {nextId}
                /\ immediates' = immediates \cup {nextId}
                /\ nextId' = nextId + 1
                /\ reply' = createReply(call.projectId, call.tool, call.cwd, "ok")
    /\ records' = IF nextId' # nextId
                  THEN [i \in DOMAIN records \cup {nextId} |->
                          IF i = nextId THEN "starting" ELSE records[i]]
                  ELSE records
    /\ UNCHANGED <<tools, closing, conns, now>>
    /\ UNCHANGED <<restVars, idleCheckInterval>>


(***************************************************************************)
(* The setImmediate callback of createSession.                             *)
(***************************************************************************)
\* RunImmediate without the test that the session is still in the table
RunImmediateUnguarded(id) ==
    /\ id \in immediates
    /\ immediates' = immediates \ {id}
    /\ records' = [records EXCEPT ![id] = "running"]
    /\ IF id \in DOMAIN sessions
       THEN /\ sessions' = [sessions EXCEPT ![id].status = "running"]
            /\ conns' = broadcast(conns, sessions[id].sockets,
                                  [type |-> "status", status |-> "running"])
       ELSE UNCHANGED <<sessions, conns>>
    /\ reply' = None
    /\ UNCHANGED <<tools, creating, closing, ptys, nextId, now>>
    /\ UNCHANGED <<restVars, idleCheckInterval>>

RunImmediate(id) ==
    /\ id \in immediates
    /\ immediates' = immediates \ {id}
    /\ IF id \in DOMAIN sessions
       THEN /\ sessions' = [sessions EXCEPT ![id].status = "running"]
            /\ records' = [records EXCEPT ![id] = "running"]
            /\ conns' = broadcast(conns, sessions[id].sockets,
                                  [type |-> "status", status |-> "running"])
       ELSE UNCHANGED <<sessions, records, conns>>
    /\ reply' = None
    /\ UNCHANGED <<tools, creating, closing, ptys, nextId, now>>
    /\ UNCHANGED <<restVars, idleCheckInterval>>

(***************************************************************************)
(* pty.onData: the child emitted a chunk.  The handler holds the record,   *)
(* so it also runs for a child whose session was removed by a forced       *)
(* cleanup; that record has no sockets and is read by nobody.              *)
(***************************************************************************)
PtyData(id, data) ==
    /\ id \in ptys
    /\ IF id \in DOMAIN sessions
       THEN /\ sessions' = [sessions EXCEPT ![id].lastActivity = now,
                                            ![id].buffer = appendBuffer(@, data),
                                            ![id].emitted = Append(@, data)]
            /\ conns' = broadcast(conns, sessions[id].sockets,
                                  [type |-> "data", data |-> data])
       ELSE UNCHANGED <<sessions, conns>>
    /\ reply' = None
    /\ UNCHANGED <<tools, creating, closing, immediates, ptys, nextId, now>>
    /\ UNCHANGED otherVars

(***************************************************************************)
(* pty.onExit: the handler createSession registered runs first (status,    *)
(* exit broadcast, cleanup), then the handler of every pending close       *)
(* (clearTimeout, resolve), whose cleanup finds the session gone.          *)
(***************************************************************************)
\* the exit handler that cleans up before it broadcasts
exitBroadcastAfterCleanup(cs, sockets, exitCode) == cs

\* this.broadcast(record, { type: "exit", code: exitCode })
exitBroadcast(cs, sockets, exitCode) ==
    broadcast(cs, sockets, [type |-> "exit", code |-> exitCode])

\* `sent` in the reply: what each attached socket had been sent when the
\* handler closed it
PtyExit(id, exitCode) ==
    /\ id \in ptys
    /\ ptys' = ptys \ {id}
    /\ closing' = [x \in DOMAIN closing \ {id} |-> closing[x]]
    /\ IF id \in DOMAIN sessions
       THEN /\ conns' = closeSockets(exitBroadcast(conns, sessions[id].sockets, exitCode),
                                     sessions[id].sockets)
            /\ sessions' = cleanupSessions(sessions, id)
            /\ reply' = [op |-> "exit", id |-> id, code |-> exitCode,
                         sockets |-> sessions[id].sockets,
                         open |-> {c \in sessions[id].sockets : conns[c].open},
                         sent |-> [c \in sessions[id].sockets |->
                                     exitBroadcast(conns, sessions[id].sockets,
                                                   exitCode)[c].inbox]]
       ELSE /\ reply' = None
            /\ UNCHANGED <<sessions, conns>>
    /\ records' = [records EXCEPT ![id] = "exited"]
    /\ UNCHANGED <<tools, creating, immediates, nextId, now>>
    /\ UNCHANGED <<restVars, idleCheckInterval>>

(***************************************************************************)
(* close(sessionId), first section: up to await ptyKilled.                 *)
(***************************************************************************)
\* Close without the lookup that returns early for an unknown id
CloseNoLookup(sessionId) ==
    /\ closing' = closing (+) SetToBag({sessionId})
    /\ reply' = None
    /\ UNCHANGED <<sessions, tools, creating, immediates, ptys, nextId, conns, now>>
    /\ UNCHANGED otherVars

Close(sessionId) ==
    /\ IF sessionId \notin DOMAIN sessions
       THEN /\ closing' = closing
            /\ reply' = [op |-> "close", id |-> sessionId, outcome |-> "no-op"]
       ELSE /\ closing' = closing (+) SetToBag({sessionId})
            /\ reply' = None
    /\ UNCHANGED <<sessions, tools, creating, immediates, ptys, nextId, conns, now>>
    /\ UNCHANGED otherVars

(***************************************************************************)
(* close, second section: the PTY_KILL_TIMEOUT timer fired before the      *)
(* child exited; cleanup runs.                                             *)
(***************************************************************************)
\* CloseTimeout whose timer only resolves the promise, cleanup never running
CloseTimeoutNoCleanup(sessionId) ==
    /\ CopiesIn(sessionId, closing) > 0
    /\ closing' = closing (-) SetToBag({sessionId})
    /\ UNCHANGED <<sessions, conns>>
    /\ reply' = [op |-> "cleanup", id |-> sessionId,
                 removed |-> FALSE]
    /\ UNCHANGED <<tools, creating, immediates, ptys, nextId, now>>
    /\ UNCHANGED otherVars

CloseTimeout(sessionId) ==
    /\ CopiesIn(sessionId, closing) > 0
    /\ closing' = closing (-) SetToBag({sessionId})
    /\ sessions' = cleanupSessions(sessions, sessionId)
    /\ conns' = cleanupConns(sessions, conns, sessionId)
    /\ reply' = [op |-> "cleanup", id |-> sessionId,
                 removed |-> sessionId \in DOMAIN sessions]
    /\ UNCHANGED <<tools, creating, immediates, ptys, nextId, now>>
    /\ UNCHANGED otherVars

(***************************************************************************)
(* shutdown(): close(id) for every session of the table.                   *)
(***************************************************************************)
Shutdown ==
    /\ idleCheckInterval' = FALSE
    /\ closing' = closing (+) SetToBag(DOMAIN sessions)
    /\ reply' = None
    /\ UNCHANGED <<sessions, tools, creating, immediates, ptys, nextId, conns, now>>
    /\ UNCHANGED <<restVars, records>>

(***************************************************************************)
(* The upgrade handler of startServer, up to wss.handleUpgrade.            *)
(***************************************************************************)
\* socket.destroy(): the connection is torn down, no close code and no reason
\* reach the client
Destroyed == [code |-> 0, reason |-> ""]

Upgrade(c, token) ==
    /\ conns[c].st = "idle"
    /\ LET tokenData == verifySessionToken(token, now)
           destroyed(why) ==
               /\ conns' = [conns EXCEPT ![c] = ClosedConn]
               /\ reply' = [op |-> "upgrade", conn |-> c, outcome |-> why,
                            closed |-> Destroyed]
       IN  IF token = NoToken \/ token = <<EmptySeg>>
           THEN destroyed("missing token")
           ELSE IF ~tokenData.valid
           THEN destroyed("invalid token")
           ELSE IF tokenData.sessionId \notin DOMAIN sessions
           THEN destroyed("session not found")
           ELSE /\ conns' = [conns EXCEPT ![c] =
                               [IdleConn EXCEPT !.st = "upgrading",
                                                !.sid = tokenData.sessionId,
                                                !.tok = token, !.at = now]]
                /\ reply' = None
    /\ UNCHANGED <<sessions, tools, creating, closing, immediates, ptys, nextId, now>>
    /\ UNCHANGED otherVars

(***************************************************************************)
(* attachWebSocket, called back by wss.handleUpgrade with the open socket. *)
(***************************************************************************)
\* AttachWebSocket sending the status before the snapshot
AttachWebSocketStatusFirst(c) ==
    /\ conns[c].st = "upgrading"
    /\ LET sessionId == conns[c].sid
       IN  IF sessionId \notin DOMAIN sessions
           THEN /\ conns' = [conns EXCEPT ![c] = ClosedConn]
                /\ reply' = [op |-> "attach", conn |-> c, outcome |-> "session not found",
                             closed |-> [code |-> 4004, reason |-> "Session not found"]]
                /\ UNCHANGED sessions
           ELSE LET session == sessions[sessionId]
                    snapshot == trimToSafeStart(session.buffer)
                    opened == [conns[c] EXCEPT !.st = "attached", !.open = TRUE,
                                               !.since = Len(session.emitted)]
                    afterStatus ==
                        send(opened, [type |-> "status", status |-> session.status])
                IN  /\ sessions' = [sessions EXCEPT ![sessionId].sockets = @ \cup {c}]
                    /\ conns' = [conns EXCEPT ![c] =
                                   IF Len(snapshot) > 0
                                   THEN send(afterStatus,
                                             [type |-> "snapshot", data |-> snapshot])
                                   ELSE afterStatus]
                    /\ reply' = None
    /\ UNCHANGED <<tools, creating, closing, immediates, ptys, nextId, now>>
    /\ UNCHANGED otherVars

AttachWebSocket(c) ==
    /\ conns[c].st = "upgrading"
    /\ LET sessionId == conns[c].sid
       IN  IF sessionId \notin DOMAIN sessions
           THEN /\ conns' = [conns EXCEPT ![c] = ClosedConn]
                /\ reply' = [op |-> "attach", conn |-> c, outcome |-> "session not found",
                             closed |-> [code |-> 4004, reason |-> "Session not found"]]
                /\ UNCHANGED sessions
           ELSE LET session == sessions[sessionId]
                    snapshot == trimToSafeStart(session.buffer)
                    opened == [conns[c] EXCEPT !.st = "attached", !.open = TRUE,
                                               !.since = Len(session.emitted)]
                    afterSnapshot ==
                        IF Len(snapshot) > 0
                        THEN send(opened, [type |-> "snapshot", data |-> snapshot])
                        ELSE opened
                IN  /\ sessions' = [sessions EXCEPT ![sessionId].sockets = @ \cup {c}]
                    /\ conns' = [conns EXCEPT ![c] =
                                   send(afterSnapshot,
                                        [type |-> "status", status |-> session.status])]
                    /\ reply' = None
    /\ UNCHANGED <<tools, creating, closing, immediates, ptys, nextId, now>>
    /\ UNCHANGED otherVars

(***************************************************************************)
(* The transport of an attached connection fails or is closed by the peer: *)
(* from then on sends to it fail; its close event has not been handled.    *)
(***************************************************************************)
SocketBreak(c) ==
    /\ conns[c].st = "attached"
    /\ conns[c].open
    /\ conns' = [conns EXCEPT ![c].open = FALSE]
    /\ reply' = None
    /\ UNCHANGED <<sessions, tools, creating, closing, immediates, ptys, nextId, now>>
    /\ UNCHANGED otherVars

(***************************************************************************)
(* onClose of attachWebSocket: the socket's close or error event.  For a   *)
(* socket that cleanup has closed, the event finds the set already cleared.*)
(***************************************************************************)
\* onClose that also drops a session whose last socket has left
OnCloseDropsEmpty(c) ==
    /\ conns[c].st \in {"attached", "closed"}
    /\ conns' = [conns EXCEPT ![c] = ClosedConn]
    /\ sessions' = [id \in {i \in DOMAIN sessions :
                                i # conns[c].sid \/ sessions[i].sockets \ {c} # {}} |->
                      [sessions[id] EXCEPT !.sockets =
                          IF id = conns[c].sid THEN @ \ {c} ELSE @]]
    /\ reply' = [op |-> "detach", conn |-> c, sid |-> conns[c].sid]
    /\ UNCHANGED <<tools, creating, closing, immediates, ptys, nextId, now>>
    /\ UNCHANGED otherVars

OnClose(c) ==
    /\ conns[c].st \in {"attached", "closed"}
    /\ conns' = [conns EXCEPT ![c] = ClosedConn]
    /\ sessions' = [id \in DOMAIN sessions |->
                      [sessions[id] EXCEPT !.sockets =
                          IF id = conns[c].sid THEN @ \ {c} ELSE @]]
    /\ reply' = [op |-> "detach", conn |-> c, sid |-> conns[c].sid]
    /\ UNCHANGED <<tools, creating, closing, immediates, ptys, nextId, now>>
    /\ UNCHANGED otherVars

(***************************************************************************)
(* write and resize, called directly or by onMessage of attachWebSocket.   *)
(***************************************************************************)
\* strings written to a child
Inputs == {"x", "y"}
\* terminal geometries asked for, as <<cols, rows>>
Geometries == {<<10, 2>>, <<80, 24>>}

max(a, b) == IF a >= b THEN a ELSE b

\* the messages a client sends: input, resize, and text that is not a message
Messages ==
    [type : {"input"}, data : Inputs]
    \cup {[type |-> "resize", cols |-> g[1], rows |-> g[2]] : g \in Geometries}
    \cup {[type |-> "junk"]}

\* write that hands the data to the child ahead of what is already queued
writtenFirst(sessionId, data) ==
    [sessions EXCEPT ![sessionId].lastActivity = now,
                     ![sessionId].stdin = <<data>> \o @]

\* the table after write(sessionId, data) found the session
written(sessionId, data) ==
    [sessions EXCEPT ![sessionId].lastActivity = now,
                     ![sessionId].stdin = Append(@, data)]

\* the table after resize(sessionId, cols, rows) found the session
resized(sessionId, cols, rows) ==
    [sessions EXCEPT ![sessionId].size = <<max(20, cols), max(4, rows)>>]

Write(sessionId, data) ==
    /\ IF sessionId \notin DOMAIN sessions
       THEN /\ reply' = [op |-> "write", id |-> sessionId, data |-> data, via |-> 0,
                         outcome |-> "Session not found"]
            /\ UNCHANGED sessions
       ELSE /\ sessions' = written(sessionId, data)
            /\ reply' = [op |-> "write", id |-> sessionId, data |-> data, via |-> 0,
                         outcome |-> "ok"]
    /\ UNCHANGED <<tools, creating, closing, immediates, ptys, nextId, conns, now>>
    /\ UNCHANGED otherVars

Resize(sessionId, cols, rows) ==
    /\ IF sessionId \notin DOMAIN sessions
       THEN /\ reply' = [op |-> "resize", id |-> sessionId, via |-> 0,
                         outcome |-> "Session not found"]
            /\ UNCHANGED sessions
       ELSE /\ sessions' = resized(sessionId, cols, rows)
            /\ reply' = [op |-> "resize", id |-> sessionId, via |-> 0, outcome |-> "ok"]
    /\ UNCHANGED <<tools, creating, closing, immediates, ptys, nextId, conns, now>>
    /\ UNCHANGED otherVars

\* onMessage of an attached connection; what write or resize throws is caught
\* and logged
OnMessage(c, msg) ==
    /\ conns[c].st = "attached"
    /\ LET sessionId == conns[c].sid
           found == sessionId \in DOMAIN sessions
           outcome == IF found THEN "ok" ELSE "Session not found"
       IN  IF msg.type = "input"
           THEN /\ sessions' = IF found THEN written(sessionId, msg.data) ELSE sessions
                /\ reply' = [op |-> "write", id |-> sessionId, data |-> msg.data,
                             via |-> c, outcome |-> outcome]
           ELSE IF msg.type = "resize"
           THEN /\ sessions' = IF found THEN resized(sessionId, msg.cols, msg.rows)
                                ELSE sessions
                /\ reply' = [op |-> "resize", id |-> sessionId, via |-> c,
                             outcome |-> outcome]
           ELSE /\ reply' = [op |-> "message", via |-> c, outcome |-> "ignored"]
                /\ UNCHANGED sessions
    /\ UNCHANGED <<tools, creating, closing, immediates, ptys, nextId, conns, now>>
    /\ UNCHANGED otherVars

(***************************************************************************)
(* cleanupIdleSessions, run by the interval startIdleCheck armed.          *)
(***************************************************************************)
\* cleanupIdleSessions that closes a session idle for exactly the threshold
CleanupIdleSessionsAtThreshold ==
    /\ idleCheckInterval
    /\ LET idle == {id \in DOMAIN sessions :
                      /\ sessions[id].status = "running"
                      /\ sessions[id].sockets = {}
                      /\ now - sessions[id].lastActivity >= SESSION_IDLE_TIMEOUT}
       IN  /\ closing' = closing (+) SetToBag(idle)
           /\ reply' = [op |-> "sweep", closed |-> idle]
    /\ UNCHANGED <<sessions, tools, creating, immediates, ptys, nextId, conns, now>>
    /\ UNCHANGED otherVars

CleanupIdleSessions ==
    /\ idleCheckInterval
    /\ LET idle == {id \in DOMAIN sessions :
                      /\ sessions[id].status = "running"
                      /\ sessions[id].sockets = {}
                      /\ now - sessions[id].lastActivity > SESSION_IDLE_TIMEOUT}
       IN  /\ closing' = closing (+) SetToBag(idle)
           /\ reply' = [op |-> "sweep", closed |-> idle]
    /\ UNCHANGED <<sessions, tools, creating, immediates, ptys, nextId, conns, now>>
    /\ UNCHANGED otherVars

\* the clock advances by a number of hours
Elapse(hours) ==
    /\ now' = now + hours
    /\ reply' = None
    /\ UNCHANGED <<sessions, tools, creating, closing, immediates, ptys, nextId, conns>>
    /\ UNCHANGED otherVars

(***************************************************************************)
(* The buffer policy on its own.                                           *)
(***************************************************************************)
TrimToSafeStart(buf) ==
    /\ reply' = [op |-> "trim", buf |-> buf, out |-> trimToSafeStart(buf)]
    /\ UNCHANGED <<sessions, tools, creating, closing, immediates, ptys, nextId, conns, now>>
    /\ UNCHANGED otherVars

AppendBuffer(buffer, chunk) ==
    /\ reply' = [op |-> "append", buf |-> buffer \o chunk,
                 out |-> appendBuffer(buffer, chunk)]
    /\ UNCHANGED <<sessions, tools, creating, closing, immediates, ptys, nextId, conns, now>>
    /\ UNCHANGED otherVars

(***************************************************************************)
(* The token codec on its own: the routes mint a token, a client presents  *)
(* a token to verifySessionToken.                                          *)
(***************************************************************************)
\* token strings a client can build from the minted tokens without the secret
forgeable(tokens) ==
    {<<EmptySeg>>, <<JunkSeg>>, <<JunkSeg, JunkSeg>>}
    \cup UNION {altered(tok) \cup {<<EmptySeg, tok[2]>>, <<tok[1], EmptySeg>>} :
                  tok \in tokens}

GenerateSessionToken(sessionId) ==
    /\ issued' = issued \cup {generateSessionToken(sessionId, now)}
    /\ reply' = None
    /\ UNCHANGED <<sessionVars, clientVars, diskVars, dirty, writing, projects, wtDirs, gitWorktrees,
                   listing>>

VerifySessionToken(token) ==
    /\ reply' = [op |-> "verify", token |-> token,
                 result |-> verifySessionToken(token, now)]
    /\ UNCHANGED <<sessionVars, restVars>>

Tick ==
    /\ now < MaxNow
    /\ now' = now + 1
    /\ reply' = None
    /\ UNCHANGED <<sessions, tools, creating, closing, immediates, ptys, nextId, conns>>
    /\ UNCHANGED otherVars

(***************************************************************************)
(* ProjectManager.addProject.  The table is looked up and written in the   *)
(* last section of the call, after its awaits of fs.stat and fs.realpath.  *)
(***************************************************************************)
\* fs.stat of a path: "dir", "file" or "none"
kindOf(path) ==
    IF realpath(path) \in Dirs \cup wtDirs THEN "dir"
    ELSE IF realpath(path) \in Files THEN "file" ELSE "none"

\* the last component of a path, as a name
basename(path) == IF path = <<>> THEN <<>> ELSE <<path[Len(path)]>>

\* addProject whose id is derived from the path as given, not the real path
addProjectIdOfInput(projectPath) == getGitProjectId(normalizePath(projectPath))

addProjectId(projectPath) ==
    getGitProjectId(normalizePath(realpath(normalizePath(projectPath))))

\* the existing record after a second registration
reRegistered(existing, canonicalPath, edited) ==
    [(IF existing.path # canonicalPath \/ existing.name # edited.name
      THEN ensureDefaultWorktree(edited) ELSE edited) EXCEPT !.lastAccessed = now]

updated(existing, canonicalPath, incomingName) ==
    reRegistered(existing, canonicalPath,
                 [existing EXCEPT
                     !.path = canonicalPath,
                     !.name = IF incomingName # <<>> /\ @ # incomingName
                              THEN incomingName ELSE @])

\* the record of a first registration
created(canonicalPath, name) ==
    ensureDefaultWorktree(
        [name |-> IF name # <<>> THEN name ELSE basename(canonicalPath),
         path |-> canonicalPath,
         lastAccessed |-> now,
         worktrees |-> <<[id |-> DefaultId, path |-> canonicalPath,
                          title |-> <<"default">>]>>,
         settings |-> <<applyDefaultSettings(<<>>)>>])

\* the table with this record under this id
withProject(projectId, info) ==
    [i \in DOMAIN projects \cup {projectId} |->
        IF i = projectId THEN info ELSE projects[i]]

addProjectSet(projectPath, projectId, outcome, info, marked) ==
    /\ projects' = withProject(projectId, info)
    /\ dirty' = (dirty \/ marked)
    /\ saveProjectsThen([op |-> "addProject", path |-> projectPath, outcome |-> outcome,
                         id |-> projectId, info |-> info])

addProjectFailed(projectPath, why) ==
    /\ reply' = [op |-> "addProject", path |-> projectPath, outcome |-> why]
    /\ UNCHANGED <<projects, dirty, writing>>

addProjectAt(projectPath, name, canonicalPath, projectId) ==
    IF projectId \in DOMAIN projects
    THEN addProjectSet(projectPath, projectId, "existing",
                       updated(projects[projectId], canonicalPath, trim(name)),
                       \/ projects[projectId].path # canonicalPath
                       \/ trim(name) # <<>> /\ projects[projectId].name # trim(name))
    ELSE addProjectSet(projectPath, projectId, "added", created(canonicalPath, name),
                       TRUE)

addProjectStat(projectPath, name, kind) ==
    IF kind = "none" THEN addProjectFailed(projectPath, "Project path does not exist")
    ELSE IF kind = "file"
    THEN addProjectFailed(projectPath, "Project path is not a directory")
    ELSE addProjectAt(projectPath, name,
                      normalizePath(realpath(normalizePath(projectPath))),
                      addProjectId(projectPath))

AddProject(projectPath, name) ==
    /\ addProjectStat(projectPath, name, kindOf(normalizePath(projectPath)))
    /\ UNCHANGED <<sessionVars, clientVars, issued, diskVars, wtDirs, gitWorktrees, listing>>

(***************************************************************************)
(* The worktree metadata of a project.                                     *)
(***************************************************************************)
getWorktreesOf(projectId, info) ==
    /\ projects' = [projects EXCEPT ![projectId] = info]
    /\ reply' = [op |-> "getWorktrees", id |-> projectId, list |-> info.worktrees]

GetWorktrees(projectId) ==
    /\ IF projectId \notin DOMAIN projects
       THEN /\ reply' = [op |-> "getWorktrees", id |-> projectId, list |-> <<>>]
            /\ UNCHANGED projects
       ELSE getWorktreesOf(projectId, ensureDefaultWorktree(projects[projectId]))
    /\ UNCHANGED <<sessionVars, clientVars, issued, diskVars, dirty, writing, wtDirs, gitWorktrees, listing>>

\* a path as the string a title is compared with
RECURSIVE pathTitle(_)
pathTitle(path) ==
    IF path = <<>> THEN <<>>
    ELSE pathTitle(SubSeq(path, 1, Len(path) - 1)) \o <<"/", path[Len(path)]>>

\* /[\/_]/.test(title)
hasSlashOrUnderscore(title) == \E i \in 1..Len(title) : title[i] \in {"/", "_"}

\* the position of the first worktree whose canonical path is this one
findByPath(worktrees, normalizedPath) ==
    LET hits == {i \in 1..Len(worktrees) :
                    canonicalizePath(worktrees[i].path) = normalizedPath}
    IN  IF hits = {} THEN 0 ELSE CHOOSE i \in hits : \A j \in hits : i <= j

\* the title heuristics: is the title of the existing entry replaced?
incomingLooksSluggy(normalizedIncoming) ==
    \/ normalizedIncoming = <<>>
    \/ normalizedIncoming = slugify(normalizedIncoming)
    \/ hasSlashOrUnderscore(normalizedIncoming)

currentLooksSluggy(current, existing) ==
    \/ current = <<>>
    \/ current = existing.id
    \/ current = pathTitle(existing.path)
    \/ current = basename(existing.path)
    \/ current = slugify(current)
    \/ hasSlashOrUnderscore(current)

shouldOverwrite(current, existing, normalizedIncoming) ==
    current = <<>> \/ (currentLooksSluggy(current, existing)
                       /\ ~incomingLooksSluggy(normalizedIncoming))

retitles(existing, title) ==
    /\ title # <<>>
    /\ existing.title # title
    /\ shouldOverwrite(trim(existing.title), existing, trim(title))

retitled(existing, title) ==
    IF retitles(existing, title) THEN [existing EXCEPT !.title = trim(title)]
    ELSE existing

\* the info, the metadata returned and whether markDirty was called
found(info, at, metadata, marked) ==
    [info |-> [info EXCEPT !.worktrees[at] = metadata], metadata |-> metadata,
     marked |-> marked]

pushed(info, metadata) ==
    [info |-> [info EXCEPT !.worktrees = Append(@, metadata)], metadata |-> metadata,
     marked |-> TRUE]

titled(info, normalizedPath, worktreeTitle) ==
    pushed(info, [id |-> generateWorktreeId(info, worktreeTitle),
                  path |-> normalizedPath, title |-> worktreeTitle])

ensuredMetadata(info, normalizedPath, at, title) ==
    IF at # 0
    THEN found(info, at,
               retitled([info.worktrees[at] EXCEPT !.path = normalizedPath], title),
               \/ info.worktrees[at].path # normalizedPath
               \/ retitles([info.worktrees[at] EXCEPT !.path = normalizedPath], title))
    ELSE titled(info, normalizedPath,
                IF title # <<>> THEN title
                ELSE IF basename(normalizedPath) # <<>> THEN basename(normalizedPath)
                ELSE <<"worktree">>)

ensuredIn(info, normalizedPath, title) ==
    ensuredMetadata(info, normalizedPath, findByPath(info.worktrees, normalizedPath),
                    title)

\* ensureWorktreeMetadata on a project of the table: the info it leaves and
\* the metadata it returns
ensureWorktreeMetadata(info, worktreePath, title) ==
    ensuredIn(ensureDefaultWorktree(info), canonicalizePath(worktreePath), title)

ensureWorktreeMetadataOf(projectId, r) ==
    /\ projects' = [projects EXCEPT ![projectId] = r.info]
    /\ dirty' = (dirty \/ r.marked)
    /\ reply' = [op |-> "ensureWorktreeMetadata", id |-> projectId,
                 outcome |-> "ok", metadata |-> r.metadata]

EnsureWorktreeMetadata(projectId, worktreePath, title) ==
    /\ IF projectId \notin DOMAIN projects
       THEN /\ reply' = [op |-> "ensureWorktreeMetadata", id |-> projectId,
                         outcome |-> "undefined"]
            /\ UNCHANGED <<projects, dirty>>
       ELSE ensureWorktreeMetadataOf(
                projectId, ensureWorktreeMetadata(projects[projectId], worktreePath, title))
    /\ UNCHANGED <<sessionVars, clientVars, issued, diskVars, writing, wtDirs, gitWorktrees, listing>>

updateWorktreeTitleAt(projectId, worktreeId, title, info, at) ==
    IF at = 0
    THEN /\ projects' = [projects EXCEPT ![projectId] = info]
         /\ reply' = [op |-> "updateWorktreeTitle", id |-> projectId,
                      worktreeId |-> worktreeId, outcome |-> "Worktree not found"]
         /\ UNCHANGED dirty
    ELSE /\ projects' = [projects EXCEPT ![projectId] =
                            [info EXCEPT !.worktrees[at].title = title]]
         /\ dirty' = TRUE
         /\ reply' = [op |-> "updateWorktreeTitle", id |-> projectId,
                      worktreeId |-> worktreeId, outcome |-> "ok"]

updateWorktreeTitleIn(projectId, worktreeId, title, info) ==
    updateWorktreeTitleAt(projectId, worktreeId, title, info,
                          findById(info.worktrees, worktreeId))

UpdateWorktreeTitle(projectId, worktreeId, title) ==
    /\ IF projectId \notin DOMAIN projects
       THEN /\ reply' = [op |-> "updateWorktreeTitle", id |-> projectId,
                         worktreeId |-> worktreeId, outcome |-> "Project not found"]
            /\ UNCHANGED <<projects, dirty>>
       ELSE updateWorktreeTitleIn(projectId, worktreeId, title,
                                  ensureDefaultWorktree(projects[projectId]))
    /\ UNCHANGED <<sessionVars, clientVars, issued, diskVars, writing, wtDirs, gitWorktrees, listing>>

\* the worktrees without those of this id
without(worktrees, worktreeId) ==
    LET keep(w) == w.id # worktreeId IN SelectSeq(worktrees, keep)

\* the info it leaves, what it throws and whether markDirty was called
filtered(info, worktreeId) ==
    [info |-> [info EXCEPT !.worktrees = without(@, worktreeId)], outcome |-> "ok",
     marked |-> Len(without(info.worktrees, worktreeId)) # Len(info.worktrees)]

\* removeWorktreeMetadata without the test for the default worktree
removeWorktreeMetadataAny(info, worktreeId) ==
    filtered(ensureDefaultWorktree(info), worktreeId)

\* removeWorktreeMetadata on a project of the table: the info it leaves and
\* what it throws
removeWorktreeMetadata(info, worktreeId) ==
    IF worktreeId = DefaultId
    THEN [info |-> ensureDefaultWorktree(info),
          outcome |-> "Cannot remove default worktree", marked |-> FALSE]
    ELSE filtered(ensureDefaultWorktree(info), worktreeId)

removeWorktreeMetadataOf(projectId, worktreeId, r) ==
    /\ projects' = [projects EXCEPT ![projectId] = r.info]
    /\ dirty' = (dirty \/ r.marked)
    /\ reply' = [op |-> "removeWorktreeMetadata", id |-> projectId,
                 worktreeId |-> worktreeId, outcome |-> r.outcome]

RemoveWorktreeMetadata(projectId, worktreeId) ==
    /\ IF projectId \notin DOMAIN projects
       THEN /\ reply' = [op |-> "removeWorktreeMetadata", id |-> projectId,
                         worktreeId |-> worktreeId, outcome |-> "Project not found"]
            /\ UNCHANGED <<projects, dirty>>
       ELSE removeWorktreeMetadataOf(
                projectId, worktreeId,
                removeWorktreeMetadata(projects[projectId], worktreeId))
    /\ UNCHANGED <<sessionVars, clientVars, issued, diskVars, writing, wtDirs, gitWorktrees, listing>>

(***************************************************************************)
(* Worktrees outside the server: `git worktree add` run by the routes or   *)
(* by hand creates the directory and git's entry for it; a directory can   *)
(* be removed behind git's back, which leaves a prunable entry.            *)
(***************************************************************************)
MaxListings == 3

WorktreePaths == {<<"home", "u", "proj", "wt1">>}

\* the paths of the in-flight listings' `gone` that are not this one
stillGone(path) == {[l EXCEPT !.gone = @ \ {path}] : l \in listing}

\* git records the worktree under `path`; its directory is where the links
\* of the host lead from there
GitWorktreeAdd(repo, path, branch) ==
    /\ kindOf(path) = "none"
    /\ \A i \in 1..Len(gitWorktrees) : gitWorktrees[i].path # path
    /\ wtDirs' = wtDirs \cup {realpath(path)}
    /\ gitWorktrees' = Append(gitWorktrees, [repo |-> repo, path |-> path, branch |-> branch])
    /\ listing' = stillGone(realpath(path))
    /\ reply' = None
    /\ UNCHANGED <<sessionVars, clientVars, issued, diskVars, dirty, writing, projects>>

RemoveDirectory(path) ==
    /\ path \in wtDirs
    /\ wtDirs' = wtDirs \ {path}
    /\ reply' = None
    /\ UNCHANGED <<sessionVars, clientVars, issued, diskVars, dirty, writing, projects, gitWorktrees, listing>>

(***************************************************************************)
(* buildWorktreeResponses (the reconciliation listing), in the sections    *)
(* its awaits cut it into: the git listing, the stat of the listed paths   *)
(* with the snapshot of the metadata, and the loop with the clean-up.      *)
(***************************************************************************)
freeListing == CHOOSE n \in 1..(MaxListings + 1) : \A l \in listing : l.n # n

\* the metadata paths of a project whose directory is missing
goneOf(projectId) ==
    {projects[projectId].worktrees[i].path : i \in
        {j \in 1..Len(projects[projectId].worktrees) :
            /\ projects[projectId].worktrees[j].id # DefaultId
            /\ kindOf(projects[projectId].worktrees[j].path) = "none"}}

\* GET /api/projects/:id/worktrees up to the start of git
ListBegin(projectId) ==
    /\ IF projectId \notin DOMAIN projects
       THEN /\ reply' = [op |-> "list", id |-> projectId, outcome |-> "Project not found"]
            /\ UNCHANGED listing
       ELSE /\ listing' = listing \cup
                   {[n |-> freeListing, route |-> "list", id |-> projectId, pc |-> "git",
                     force |-> FALSE, parsed |-> <<>>, metadataList |-> <<>>,
                     gone |-> goneOf(projectId)]}
            /\ reply' = None
    /\ UNCHANGED <<sessionVars, clientVars, issued, diskVars, dirty, writing, projects, wtDirs, gitWorktrees>>

\* git worktree list --porcelain in the project, parsed: the primary
\* worktree, then the added ones; prunable blocks are skipped
parseWorktreeOutput(projectPath) ==
    LET listed(w) == w.repo = projectPath /\ realpath(w.path) \in wtDirs
        added == SelectSeq(gitWorktrees, listed)
    IN  <<[path |-> normalizePath(projectPath), branch |-> <<"main">>]>> \o
        [i \in 1..Len(added) |-> [path |-> normalizePath(added[i].path),
                                  branch |-> added[i].branch]]

\* git worktree prune in the project
pruned(projectPath) ==
    LET kept(w) == w.repo # projectPath \/ realpath(w.path) \in wtDirs
    IN  SelectSeq(gitWorktrees, kept)

ListGit(l) ==
    /\ l.pc = "git"
    /\ gitWorktrees' = pruned(projects[l.id].path)
    /\ listing' = (listing \ {l}) \cup
           {[l EXCEPT !.pc = "stat", !.parsed = parseWorktreeOutput(projects[l.id].path)]}
    /\ reply' = None
    /\ UNCHANGED <<sessionVars, clientVars, issued, diskVars, dirty, writing, projects, wtDirs>>

listStatOf(l, info) ==
    LET isDirectory(entry) == kindOf(entry.path) = "dir"
    IN  /\ projects' = [projects EXCEPT ![l.id] = info]
        /\ listing' = (listing \ {l}) \cup
               {[l EXCEPT !.pc = "loop", !.parsed = SelectSeq(l.parsed, isDirectory),
                          !.metadataList = info.worktrees]}

ListStat(l) ==
    /\ l.pc = "stat"
    /\ listStatOf(l, ensureDefaultWorktree(projects[l.id]))
    /\ reply' = None
    /\ UNCHANGED <<sessionVars, clientVars, issued, diskVars, dirty, writing, wtDirs, gitWorktrees>>

\* normalizePath(await realpath(path)), <<>> when it throws
realOrNull(path) == IF exists(path) THEN normalizePath(realpath(path)) ELSE <<>>

candidateOf(meta) ==
    [meta |-> meta, normalizedPath |-> normalizePath(meta.path),
     realPath |-> realOrNull(meta.path)]

\* the position of the first candidate that satisfies the test, else 0
firstOf(candidates, test(_)) ==
    LET hits == {i \in 1..Len(candidates) : test(candidates[i])}
    IN  IF hits = {} THEN 0 ELSE CHOOSE i \in hits : \A j \in hits : i <= j

findByEntry(candidates, normalizedEntry, entryReal) ==
    LET byPath(item) == item.normalizedPath = normalizedEntry
        byReal(item) == item.normalizedPath = entryReal \/ item.realPath = entryReal
        byMetaReal(item) == item.realPath # <<>> /\ item.realPath = normalizedEntry
    IN  IF firstOf(candidates, byPath) # 0 THEN firstOf(candidates, byPath)
        ELSE IF entryReal # <<>> /\ firstOf(candidates, byReal) # 0
        THEN firstOf(candidates, byReal)
        ELSE firstOf(candidates, byMetaReal)

findMetadataForEntry(candidates, entryPath) ==
    findByEntry(candidates, normalizePath(entryPath), realOrNull(entryPath))

\* one turn of the loop over the parsed entries
responded(info, candidates, responses, metadata, entry, marked) ==
    [info |-> info, candidates |-> candidates, marked |-> marked,
     responses |-> Append(responses, [id |-> metadata.id, title |-> metadata.title,
                                      path |-> metadata.path, branch |-> entry.branch])]

ensuredEntry(before, entry, ensured) ==
    responded(ensured.info, Append(before.candidates, candidateOf(ensured.metadata)),
              before.responses, ensured.metadata, entry,
              before.marked \/ ensured.marked)

matched(before, entry, at) ==
    IF at # 0
    THEN responded(before.info,
                   [before.candidates EXCEPT ![at] = candidateOf(before.candidates[at].meta)],
                   before.responses, before.candidates[at].meta, entry, before.marked)
    ELSE ensuredEntry(before, entry,
                      ensureWorktreeMetadata(before.info, entry.path, entry.branch))

turn(before, entry) ==
    matched(before, entry, findMetadataForEntry(before.candidates, entry.path))

\* the loop over the parsed entries: the info, the candidates, the responses
\* and whether markDirty was called, after the first k entries
RECURSIVE listed(_, _, _, _)
listed(info, metadataList, parsed, k) ==
    IF k = 0
    THEN [info |-> info,
          candidates |-> [i \in 1..Len(metadataList) |-> candidateOf(metadataList[i])],
          marked |-> FALSE,
          responses |-> <<>>]
    ELSE turn(listed(info, metadataList, parsed, k - 1), parsed[k])

\* the ids of the snapshot's metadata that the clean-up removes
orphans(metadataList, parsed) ==
    {metadataList[i].id : i \in
        {j \in 1..Len(metadataList) :
            /\ metadataList[j].id # DefaultId
            /\ \A k \in 1..Len(parsed) :
                   parsed[k].path # normalizePath(metadataList[j].path)}}

\* removeWorktreeMetadata for each orphan, its errors caught
cleaned(info, ids) ==
    LET keep(w) == w.id \notin ids
    IN  IF ids = {} THEN info
        ELSE [ensureDefaultWorktree(info) EXCEPT !.worktrees = SelectSeq(@, keep)]

\* a removeWorktreeMetadata of the clean-up has removed an entry
cleanedAny(info, ids) == \E i \in 1..Len(info.worktrees) : info.worktrees[i].id \in ids

listFinishOf(l, loop) ==
    /\ projects' = [projects EXCEPT ![l.id] =
                       cleaned(loop.info, orphans(l.metadataList, l.parsed))]
    /\ dirty' = (\/ dirty
                 \/ loop.marked
                 \/ cleanedAny(loop.info, orphans(l.metadataList, l.parsed)))
    /\ saveProjectsThen(
           [op |-> l.route, id |-> l.id, outcome |-> "ok",
            responses |-> loop.responses, gone |-> l.gone,
            git |-> IF l.route = "delete" THEN <<"worktree remove">> ELSE <<>>])

ListFinish(l) ==
    /\ l.pc = "loop"
    /\ listFinishOf(l, listed(projects[l.id], l.metadataList, l.parsed, Len(l.parsed)))
    /\ listing' = listing \ {l}
    /\ UNCHANGED <<sessionVars, clientVars, issued, diskVars, wtDirs, gitWorktrees>>

(***************************************************************************)
(* DELETE /api/projects/:id/worktrees/:worktreeId.  `git` in the reply is  *)
(* the list of git commands the handler has run.                           *)
(***************************************************************************)
deleteRejected(projectId, worktreeId, force, code, why) ==
    /\ reply' = [op |-> "delete", id |-> projectId, worktreeId |-> worktreeId,
                 force |-> force, status |-> code, outcome |-> why, git |-> <<>>]
    /\ UNCHANGED listing

deleteFound(projectId, worktreeId, force, metadata) ==
    IF metadata.id = DefaultId
    THEN deleteRejected(projectId, worktreeId, force, 400, "Cannot remove default worktree")
    ELSE /\ listing' = listing \cup
                {[n |-> freeListing, route |-> "delete", id |-> projectId,
                  pc |-> "remove", force |-> force, parsed |-> <<>>,
                  metadataList |-> <<metadata>>, gone |-> {}]}
         /\ reply' = None

deleteAt(projectId, worktreeId, force, info, at) ==
    /\ projects' = [projects EXCEPT ![projectId] = info]
    /\ IF at = 0
       THEN deleteRejected(projectId, worktreeId, force, 404, "Worktree not found")
       ELSE deleteFound(projectId, worktreeId, force, info.worktrees[at])

deleteIn(projectId, worktreeId, force, info) ==
    deleteAt(projectId, worktreeId, force, info, findById(info.worktrees, worktreeId))

DeleteWorktree(projectId, worktreeId, force) ==
    /\ IF projectId \notin DOMAIN projects
       THEN /\ deleteRejected(projectId, worktreeId, force, 404, "Project not found")
            /\ UNCHANGED projects
       ELSE deleteIn(projectId, worktreeId, force,
                     ensureDefaultWorktree(projects[projectId]))
    /\ UNCHANGED <<sessionVars, clientVars, issued, diskVars, dirty, writing, wtDirs, gitWorktrees>>

\* git worktree remove [--force] path returns: it fails on a path git does
\* not list; the handler then drops the metadata and lists the worktrees
deleteGitOf(l, metadata) ==
    LET kept(w) == w.path # metadata.path
    IN  IF \A i \in 1..Len(gitWorktrees) : gitWorktrees[i].path # metadata.path
        THEN /\ reply' = [op |-> "delete", id |-> l.id, worktreeId |-> metadata.id,
                          force |-> l.force, status |-> 400,
                          outcome |-> "git worktree remove failed",
                          git |-> <<"worktree remove">>]
             /\ listing' = listing \ {l}
             /\ UNCHANGED <<projects, wtDirs, gitWorktrees, dirty, writing>>
        ELSE /\ wtDirs' = wtDirs \ {metadata.path}
             /\ gitWorktrees' = SelectSeq(gitWorktrees, kept)
             /\ projects' = [projects EXCEPT ![l.id] =
                                removeWorktreeMetadata(@, metadata.id).info]
             /\ dirty' = (dirty \/ removeWorktreeMetadata(projects[l.id], metadata.id).marked)
             /\ IF saveProjectsWrites(loaded, dirty')
                THEN /\ writing' = writing \cup
                            {[n |-> freeWrite, data |-> persisted(projects'),
                              then |-> [op |-> "buildWorktreeResponses", listing |-> l.n]]}
                     /\ listing' = (listing \ {l}) \cup
                            {[l EXCEPT !.pc = "save", !.metadataList = <<>>]}
                ELSE /\ listing' = (listing \ {l}) \cup
                            {[l EXCEPT !.pc = "git", !.metadataList = <<>>,
                                       !.gone = goneOf(l.id) \ {metadata.path}]}
                     /\ UNCHANGED writing
             /\ reply' = None

DeleteGit(l) ==
    /\ l.pc = "remove"
    /\ deleteGitOf(l, l.metadataList[1])
    /\ UNCHANGED <<sessionVars, clientVars, issued, diskVars>>

(***************************************************************************)
(* A write of saveProjects completes: the file holds what was serialized   *)
(* when the write began, `dirty` is cleared and the caller goes on.        *)
(***************************************************************************)
resumed(n) ==
    {IF l.n = n /\ l.pc = "save" THEN [l EXCEPT !.pc = "git", !.gone = goneOf(l.id)]
     ELSE l : l \in listing}

WriteFile(w) ==
    /\ w \in writing
    /\ configFile' = <<w.data>>
    /\ dirty' = FALSE
    /\ writing' = writing \ {w}
    /\ IF w.then.op = "buildWorktreeResponses"
       THEN /\ listing' = resumed(w.then.listing)
            /\ reply' = None
       ELSE /\ reply' = w.then
            /\ UNCHANGED listing
    /\ UNCHANGED <<sessionVars, clientVars, issued, loaded, loading, projects, wtDirs, gitWorktrees>>

(***************************************************************************)
(* ProjectManager.getProjectSettings and updateProjectSettings.  In the    *)
(* reply, `settings` is <<>> for the null returned on an unknown project.  *)
(***************************************************************************)
GetProjectSettings(projectId) ==
    /\ IF projectId \notin DOMAIN projects
       THEN /\ reply' = [op |-> "getProjectSettings", id |-> projectId, settings |-> <<>>]
            /\ UNCHANGED projects
       ELSE /\ projects' = [projects EXCEPT
                                ![projectId].settings = <<applyDefaultSettings(@)>>]
            /\ reply' = [op |-> "getProjectSettings", id |-> projectId,
                         settings |-> projects'[projectId].settings]
    /\ UNCHANGED <<sessionVars, clientVars, issued, diskVars, dirty, writing, wtDirs, gitWorktrees,
                   listing>>

\* the partial's field where it is given, else the current one
merged(partial, current) ==
    [codex |->
        [autoPrompt |-> IF autoPromptOf(<<partial>>) # <<>>
                        THEN partial.codex.autoPrompt ELSE current.codex.autoPrompt,
         promptCharLimit |-> IF promptCharLimitOf(<<partial>>) # <<>>
                             THEN partial.codex.promptCharLimit
                             ELSE current.codex.promptCharLimit]]

\* the last lines: the store, markDirty and `void this.saveProjects()`
updateProjectSettingsOf(projectId, partial, settings) ==
    /\ projects' = [projects EXCEPT ![projectId].settings = <<settings>>]
    /\ dirty' = TRUE
    /\ IF saveProjectsWrites(loaded, dirty')
       THEN writing' = writing \cup
                {[n |-> freeWrite, data |-> persisted(projects'), then |-> None]}
       ELSE UNCHANGED writing
    /\ reply' = [op |-> "updateProjectSettings", id |-> projectId,
                 partial |-> partial, settings |-> <<settings>>]

UpdateProjectSettings(projectId, partial) ==
    /\ IF projectId \notin DOMAIN projects
       THEN /\ reply' = [op |-> "updateProjectSettings", id |-> projectId,
                         partial |-> partial, settings |-> <<>>]
            /\ UNCHANGED <<projects, dirty, writing>>
       ELSE updateProjectSettingsOf(
                projectId, partial,
                applyDefaultSettings(
                    <<merged(partial, applyDefaultSettings(projects[projectId].settings))>>))
    /\ UNCHANGED <<sessionVars, clientVars, issued, diskVars, wtDirs, gitWorktrees, listing>>

(***************************************************************************)
(* loadProjects, started by the constructor and not awaited.  Its sections *)
(* end at the await of fs.readFile, at the await of fs.stat for each       *)
(* project of the file, and inside the addProject that seeds the table.    *)
(***************************************************************************)
\* process.cwd()
Cwd == <<"home", "u", "proj">>

\* the finally block: loaded is set, and an empty table is seeded
loadFinally(table) ==
    /\ loaded' = TRUE
    /\ loading' = [pc |-> IF DOMAIN table = {} THEN "seed" ELSE "done"]

LoadRead ==
    /\ loading.pc = "read"
    /\ IF configFile = <<>> \/ DOMAIN configFile[1] = {}
       THEN loadFinally(projects)
       ELSE /\ loading' = [pc |-> "stat", data |-> configFile[1],
                           todo |-> DOMAIN configFile[1]]
            /\ UNCHANGED loaded
    /\ reply' = None
    /\ UNCHANGED <<sessionVars, clientVars, issued, projects, wtDirs, gitWorktrees,
                   listing, dirty, configFile, writing>>

\* the table after the turn of the loop for this project of the file
loadedWith(table, data, id) ==
    IF kindOf(data[id].path) # "dir" THEN table
    ELSE [i \in DOMAIN table \cup {id} |->
             IF i = id THEN ensureDefaultWorktree(data[id]) ELSE table[i]]

LoadStat(id) ==
    /\ loading.pc = "stat"
    /\ id \in loading.todo
    /\ projects' = loadedWith(projects, loading.data, id)
    /\ IF loading.todo = {id}
       THEN loadFinally(projects')
       ELSE /\ loading' = [loading EXCEPT !.todo = @ \ {id}]
            /\ UNCHANGED loaded
    /\ reply' = None
    /\ UNCHANGED <<sessionVars, clientVars, issued, wtDirs, gitWorktrees, listing, dirty,
                   configFile, writing>>

\* the last section of the addProject(cwd, name) of the finally block
LoadSeed ==
    /\ loading.pc = "seed"
    /\ loading' = [pc |-> "done"]
    /\ addProjectStat(Cwd, basename(Cwd), kindOf(normalizePath(Cwd)))
    /\ UNCHANGED <<sessionVars, clientVars, issued, loaded, configFile, wtDirs,
                   gitWorktrees, listing>>

\* ProjectManager.shutdown
ShutdownProjectManager ==
    /\ UNCHANGED <<projects, dirty>>
    /\ saveProjectsThen([op |-> "shutdown"])
    /\ UNCHANGED <<sessionVars, clientVars, issued, diskVars, wtDirs, gitWorktrees,
                   listing>>

(***************************************************************************)
(* PATCH /api/projects/:id.  `name` is <<>> when the body has no name.     *)
(***************************************************************************)
PatchProject(id, name) ==
    /\ IF id \notin DOMAIN projects
       THEN /\ reply' = [op |-> "patchProject", id |-> id, status |-> 404]
            /\ UNCHANGED <<projects, dirty, writing>>
       ELSE /\ projects' = [projects EXCEPT
                                ![id].name = IF name # <<>> THEN name[1] ELSE @]
            /\ UNCHANGED dirty
            /\ saveProjectsThen([op |-> "patchProject", id |-> id, status |-> 200,
                                 name |-> name, project |-> projects'[id]])
    /\ UNCHANGED <<sessionVars, clientVars, issued, diskVars, wtDirs, gitWorktrees,
                   listing>>

(***************************************************************************)
(* The client's session store (useCliSessionsStore).  A session is its id; *)
(* each operation is cut at its await of fetch: the section before the     *)
(* request, the server's answer, the section after the response.           *)
(***************************************************************************)
MaxFetches == 2
MaxServed == 2

freeFetch == CHOOSE n \in 1..(MaxFetches + 1) : \A f \in fetches : f.n # n

\* Array.prototype.findIndex for an id, from 0, -1 when absent
findIndex(list, id) ==
    IF \A i \in 1..Len(list) : list[i] # id THEN 0 - 1
    ELSE (CHOOSE i \in 1..Len(list) :
              list[i] = id /\ \A j \in 1..(i - 1) : list[j] # id) - 1

\* splice(index, 1) and splice(insertAt, 0, item)
spliceOut(list, index) ==
    SubSeq(list, 1, index) \o SubSeq(list, index + 2, Len(list))

spliceIn(list, insertAt, item) ==
    SubSeq(list, 1, insertAt) \o <<item>> \o SubSeq(list, insertAt + 1, Len(list))

\* filter((session) => session.id !== id)
filterOut(list, id) == LET other(item) == item # id IN SelectSeq(list, other)

requested(call) == fetches \cup {[call EXCEPT !.n = freeFetch]}

answered(f, response, data) ==
    (fetches \ {f}) \cup {[f EXCEPT !.response = response, !.data = data]}

\* createSession: the POST, the server's answer, the section after it
ClientCreateSession ==
    /\ fetches' = requested([n |-> 0, op |-> "createSession", response |-> "pending",
                             data |-> <<>>])
    /\ reply' = None
    /\ UNCHANGED <<sessionVars, issued, projects, wtDirs, gitWorktrees, listing, diskVars,
                   dirty, writing, store, served>>

ServerCreate(f, ok) ==
    /\ f.op = "createSession" /\ f.response = "pending"
    /\ IF ok
       THEN /\ served' = [list |-> Append(served.list, served.next),
                          next |-> served.next + 1]
            /\ fetches' = answered(f, "ok", <<served.next>>)
       ELSE /\ fetches' = answered(f, "failed", <<>>)
            /\ UNCHANGED served
    /\ reply' = None
    /\ UNCHANGED <<sessionVars, issued, projects, wtDirs, gitWorktrees, listing, diskVars,
                   dirty, writing, store>>

ClientCreateSessionEnd(f) ==
    /\ f.op = "createSession" /\ f.response # "pending"
    /\ store' = IF f.response = "ok"
                THEN [store EXCEPT !.sessions = <<f.data[1]>> \o @,
                                   !.activeSessionId = f.data[1],
                                   !.error = "null"]
                ELSE [store EXCEPT !.error = "Failed to create session"]
    /\ fetches' = fetches \ {f}
    /\ reply' = [op |-> "createSession", call |-> f]
    /\ UNCHANGED <<sessionVars, issued, projects, wtDirs, gitWorktrees, listing, diskVars,
                   dirty, writing, served>>

\* loadSessions
LoadSessions ==
    /\ store' = [store EXCEPT !.loading = TRUE, !.error = "null"]
    /\ fetches' = requested([n |-> 0, op |-> "loadSessions", response |-> "pending",
                             data |-> <<>>])
    /\ reply' = None
    /\ UNCHANGED <<sessionVars, issued, projects, wtDirs, gitWorktrees, listing, diskVars,
                   dirty, writing, served>>

ServerList(f, ok) ==
    /\ f.op = "loadSessions" /\ f.response = "pending"
    /\ fetches' = IF ok THEN answered(f, "ok", served.list)
                  ELSE answered(f, "failed", <<>>)
    /\ reply' = None
    /\ UNCHANGED <<sessionVars, issued, projects, wtDirs, gitWorktrees, listing, diskVars,
                   dirty, writing, store, served>>

LoadSessionsEnd(f) ==
    /\ f.op = "loadSessions" /\ f.response # "pending"
    /\ store' = IF f.response = "ok"
                THEN [store EXCEPT
                         !.sessions = f.data,
                         !.loading = FALSE,
                         !.activeSessionId =
                             IF @ # NoSession /\ findIndex(f.data, @) = 0 - 1
                             THEN NoSession ELSE @]
                ELSE [store EXCEPT !.loading = FALSE,
                                   !.error = "Failed to load sessions"]
    /\ fetches' = fetches \ {f}
    /\ reply' = [op |-> "loadSessions", call |-> f]
    /\ UNCHANGED <<sessionVars, issued, projects, wtDirs, gitWorktrees, listing, diskVars,
                   dirty, writing, served>>

\* closeSession up to its fetch: the session leaves the list at once
closeSessionAt(id, index) ==
    /\ store' = [store EXCEPT
                    !.sessions = IF index # 0 - 1 THEN spliceOut(@, index) ELSE @,
                    !.activeSessionId = IF @ = id THEN NoSession ELSE @]
    /\ fetches' = requested(
           [n |-> 0, op |-> "closeSession", response |-> "pending", data |-> <<>>,
            id |-> id,
            removedSession |-> IF index # 0 - 1 THEN <<store.sessions[index + 1]>>
                               ELSE <<>>,
            removedIndex |-> index,
            removedWasActive |-> store.activeSessionId = id])

ClientCloseSession(id) ==
    /\ closeSessionAt(id, findIndex(store.sessions, id))
    /\ reply' = None
    /\ UNCHANGED <<sessionVars, issued, projects, wtDirs, gitWorktrees, listing, diskVars,
                   dirty, writing, served>>

\* the server answers the DELETE: it ends the session, or the request fails
ServerDelete(f, ok) ==
    /\ f.op = "closeSession" /\ f.response = "pending"
    /\ IF ok
       THEN /\ served' = [served EXCEPT !.list = filterOut(@, f.id)]
            /\ fetches' = answered(f, "ok", <<>>)
       ELSE /\ fetches' = answered(f, "failed", <<>>)
            /\ UNCHANGED served
    /\ reply' = None
    /\ UNCHANGED <<sessionVars, issued, projects, wtDirs, gitWorktrees, listing, diskVars,
                   dirty, writing, store>>

\* the catch block of closeSession
putBack(state, f, alreadyPresent) ==
    IF f.removedSession = <<>> \/ alreadyPresent
    THEN [state EXCEPT !.error = "Failed to close session"]
    ELSE [state EXCEPT
             !.sessions = spliceIn(@, IF f.removedIndex >= 0
                                      THEN mathMin(f.removedIndex, Len(@))
                                      ELSE Len(@),
                                   f.removedSession[1]),
             !.activeSessionId = IF f.removedWasActive \/ @ = NoSession
                                 THEN f.removedSession[1] ELSE @,
             !.error = "Failed to close session"]

ClientCloseSessionEnd(f) ==
    /\ f.op = "closeSession" /\ f.response # "pending"
    /\ store' = IF f.response = "ok" THEN store
                ELSE putBack(store, f, findIndex(store.sessions, f.id) # 0 - 1)
    /\ fetches' = fetches \ {f}
    /\ reply' = [op |-> "closeSession", call |-> f]
    /\ UNCHANGED <<sessionVars, issued, projects, wtDirs, gitWorktrees, listing, diskVars,
                   dirty, writing, served>>

SetActiveSession(id) ==
    /\ store' = [store EXCEPT !.activeSessionId = id]
    /\ reply' = None
    /\ UNCHANGED <<sessionVars, issued, projects, wtDirs, gitWorktrees, listing, diskVars,
                   dirty, writing, fetches, served>>

(***************************************************************************)
(* The inputs of the registry's operations.                                *)
(***************************************************************************)
ProjectPaths == {<<"home", "u", "proj">>, <<"etc", "back">>, <<"etc", "back", ".">>,
                 <<"private", "tmp", "w">>, <<"tmp", "w">>,
                 <<"home", "u", "notes">>, <<"home", "u", "gone">>}
Names == {<<>>, <<" ", "w">>}
ProjectIds == {getGitProjectId(<<"home", "u", "proj">>),
               getGitProjectId(<<"private", "tmp", "w">>),
               getGitProjectId(<<"etc", "back">>)}
WorktreeIds == {DefaultId, <<"feat">>, <<"default", "-", "2">>}
MaxProjectNow == 2

(***************************************************************************)
(* Specifications.  The operations are those above in each of them; they   *)
(* differ in the inputs the environment draws.                             *)
(***************************************************************************)
\* room for one more createSession call: every call in flight can still be
\* given an id
roomToCreate == nextId + BagCardinality(creating) <= MaxIds

createSteps(projectIds, toolIds, cwds) ==
    \/ /\ roomToCreate
       /\ \E projectId \in projectIds, tool \in toolIds, cwd \in cwds :
             CreateSessionBegin(projectId, tool, cwd)
    \/ \E call \in BagToSet(creating) : CreateSessionStat(call)
    \/ \E call \in BagToSet(creating), spawnThrows \in BOOLEAN :
          CreateSessionFinish(call, spawnThrows)

childSteps(ids) ==
    \/ \E id \in ids : RunImmediate(id)
    \/ \E id \in ids, exitCode \in ExitCodes : PtyExit(id, exitCode)

closeSteps(ids) ==
    \/ \E id \in ids : CopiesIn(id, closing) < MaxCloses /\ Close(id)
    \/ \E id \in ids : CloseTimeout(id)
    \/ (\A id \in DOMAIN sessions : CopiesIn(id, closing) < MaxCloses) /\ Shutdown

dataSteps(ids) ==
    \E id \in ids, data \in Chunks :
        /\ id \in DOMAIN sessions => Len(sessions[id].emitted) < MaxChunks
        /\ PtyData(id, data)

\* room in the child's input for one more write
roomToWrite(id) == id \in DOMAIN sessions => Len(sessions[id].stdin) < MaxWrites

\* Terminal input: writes and resizes, direct and from attached connections,
\* against sessions that start, exit and are closed.
NextInput ==
    \/ createSteps({"p1"}, {"codex"}, {<<"home", "u", "proj">>})
    \/ childSteps(Ids)
    \/ \E id \in {1} : CopiesIn(id, closing) < 1 /\ Close(id)
    \/ \E id \in {1} : CloseTimeout(id)
    \/ \E c \in ConnIds, token \in mintedTokens : Upgrade(c, token)
    \/ \E c \in ConnIds : AttachWebSocket(c)
    \/ \E id \in Ids, data \in Inputs : roomToWrite(id) /\ Write(id, data)
    \/ \E id \in Ids : Resize(id, 10, 2)
    \/ \E c \in ConnIds, msg \in Messages :
          /\ roomToWrite(conns[c].sid)
          /\ msg.type = "resize" => msg.cols = 80
          /\ OnMessage(c, msg)

SpecInput == Init /\ [][NextInput]_vars

\* The idle sweep: the clock advances by a day or a day and an hour, sessions are
\* written to, produce output, gain and lose a connection, and are swept.
NextIdle ==
    \/ createSteps({"p1"}, {"codex"}, {<<"home", "u", "proj">>})
    \/ \E id \in Ids : RunImmediate(id)
    \/ \E id \in Ids :
          /\ id \in DOMAIN sessions => Len(sessions[id].stdin) < 1
          /\ Write(id, "x")
    \/ \E id \in Ids :
          /\ id \in DOMAIN sessions => Len(sessions[id].emitted) < 1
          /\ PtyData(id, <<"a", "b">>)
    \/ \E token \in mintedTokens : Upgrade(1, token)
    \/ AttachWebSocket(1)
    \/ OnClose(1)
    \/ (\A id \in DOMAIN sessions : CopiesIn(id, closing) < 1) /\ CleanupIdleSessions
    \/ closing = EmptyBag /\ Shutdown
    \/ \E hours \in {24, 25} : now + hours <= MaxIdleNow /\ Elapse(hours)

SpecIdle == Init /\ [][NextIdle]_vars

\* The buffer policy: one buffer over the alphabet, trimmed directly or as the
\* result of appending a chunk to a buffer within the limit.
NextTrim ==
    \/ reply = None /\ \E buf \in Buffers : TrimToSafeStart(buf)
    \/ reply = None /\ \E buffer \in Strings(BUFFER_LIMIT), chunk \in Strings(MaxOver) :
                          AppendBuffer(buffer, chunk)

SpecTrim == Init /\ [][NextTrim]_vars

\* Fan-out: sessions of one tool in one directory, their children's output and
\* exit, connections attaching with freshly minted tokens.
Next ==
    \/ createSteps({"p1"}, {"codex"}, {<<"home", "u", "proj">>})
    \/ childSteps(Ids)
    \/ dataSteps(Ids)
    \/ \E c \in ConnIds, token \in {NoToken} \cup mintedTokens : Upgrade(c, token)
    \/ \E c \in ConnIds : AttachWebSocket(c)
    \/ \E c \in ConnIds : SocketBreak(c)
    \/ \E c \in ConnIds : OnClose(c)

Spec == Init /\ [][Next]_vars

\* Closing: explicit closes, the grace timer, shutdown, the child's own exit, with
\* connections attached.
NextClose ==
    \/ createSteps({"p1"}, {"codex"}, {<<"home", "u", "proj">>})
    \/ childSteps(Ids)
    \/ closeSteps(Ids)
    \/ \E c \in ConnIds, token \in mintedTokens : Upgrade(c, token)
    \/ \E c \in ConnIds : AttachWebSocket(c)
    \/ \E c \in ConnIds : OnClose(c)

SpecClose == Init /\ [][NextClose]_vars

\* The bridge: tokens of every age and altered tokens against the clock.
NextBridge ==
    \/ createSteps({"p1"}, {"codex"}, {<<"home", "u", "proj">>})
    \/ \E id \in Ids, exitCode \in ExitCodes : PtyExit(id, exitCode)
    \/ \E c \in ConnIds, token \in presentableTokens : Upgrade(c, token)
    \/ \E c \in ConnIds : AttachWebSocket(c)
    \/ \E c \in ConnIds : OnClose(c)
    \/ Tick

SpecBridge == Init /\ [][NextBridge]_vars

\* The token codec: tokens minted at every hour, presented at every hour.
NextTok ==
    \/ \E sessionId \in Ids : GenerateSessionToken(sessionId)
    \/ \E token \in forgeable(issued) : VerifySessionToken(token)
    \/ Tick

SpecTok == Init /\ [][NextTok]_vars

(***************************************************************************)
(* Capacity: the manager with a table already filled up to one below, or   *)
(* up to, a ceiling.  The sessions of that table have negative ids; they   *)
(* are running, silent and unattached, and the probes have settled.        *)
(***************************************************************************)
FillerProjects == <<"p2", "p3", "p4", "p5">>

filledTable(inP1, inOthers) ==
    [k \in {0 - i : i \in 1..(inP1 + inOthers)} |->
        [projectId |-> IF 0 - k <= inP1 THEN "p1"
                       ELSE FillerProjects[((0 - k) - inP1 - 1) \div MAX_SESSIONS_PER_PROJECT + 1],
         cwd |-> <<"home", "u", "proj">>, tool |-> "codex", status |-> "running",
         buffer |-> <<>>, sockets |-> {}, emitted |-> <<>>,
         lastActivity |-> 0, stdin |-> <<>>, size |-> <<120, 32>>]]

InitCap ==
    /\ \E inP1 \in {MAX_SESSIONS_PER_PROJECT - 1, MAX_SESSIONS_PER_PROJECT},
          inOthers \in {0, MAX_TOTAL_SESSIONS - MAX_SESSIONS_PER_PROJECT} :
          sessions = filledTable(inP1, inOthers)
    /\ ptys = DOMAIN sessions
    /\ tools = [t \in ToolIds |-> IF t \in InstalledTools THEN "true" ELSE "false"]
    /\ creating = EmptyBag
    /\ closing = EmptyBag
    /\ immediates = {}
    /\ nextId = 1
    /\ conns = [c \in ConnIds |-> IdleConn]
    /\ now = 0
    /\ issued = {}
    /\ records = [k \in DOMAIN sessions |-> sessions[k].status]
    /\ idleCheckInterval = TRUE
    /\ RegistryInit
    /\ StoreInit
    /\ reply = None

\* the sessions the environment acts on: the new ones and one of the table
FollowedIds == Ids \cup {0 - 1}

NextCap ==
    \/ createSteps(CapProjects, {"codex"}, {<<"home", "u", "proj">>})
    \/ childSteps(FollowedIds)
    \/ \E id \in FollowedIds : CopiesIn(id, closing) < MaxCloses /\ Close(id)
    \/ \E id \in FollowedIds : CloseTimeout(id)

SpecCap == InitCap /\ [][NextCap]_vars

\* Creation: every tool, every kind of working directory, from the empty table
\* and from tables one session below a ceiling, the probes still running.
InitCreate ==
    /\ sessions \in {<<>>, filledTable(MAX_SESSIONS_PER_PROJECT - 1, 0),
                      filledTable(MAX_SESSIONS_PER_PROJECT - 1,
                                  MAX_TOTAL_SESSIONS - MAX_SESSIONS_PER_PROJECT)}
    /\ ptys = DOMAIN sessions
    /\ tools = [t \in ToolIds |-> "undefined"]
    /\ creating = EmptyBag
    /\ closing = EmptyBag
    /\ immediates = {}
    /\ nextId = 1
    /\ conns = [c \in ConnIds |-> IdleConn]
    /\ now = 0
    /\ issued = {}
    /\ records = [k \in DOMAIN sessions |-> sessions[k].status]
    /\ idleCheckInterval = TRUE
    /\ RegistryInit
    /\ StoreInit
    /\ reply = None

NextCreate ==
    \/ \E tool \in ToolIds : DetectToolAvailability(tool)
    \/ createSteps({"p1"}, ToolInputs, CwdInputs)
    \/ childSteps(Ids)

SpecCreate == InitCreate /\ [][NextCreate]_vars

\* The grace timer of every pending close fires unless the child's exit clears
\* it first; nothing makes a child exit.
\* the project registry with the worktrees of one project, one listing at
\* a time
Proj == getGitProjectId(<<"home", "u", "proj">>)

NextRegistry ==
    \/ \E path \in {<<"home", "u", "proj">>, <<"etc", "back">>} : AddProject(path, <<>>)
    \/ GetWorktrees(Proj)
    \/ \E path \in {<<"etc", "back", "wt1">>, <<"etc", "back">>} :
           EnsureWorktreeMetadata(Proj, path, <<"New", " ", "UI">>)
    \/ \E worktreeId \in {DefaultId, <<"default", "-", "2">>} :
           UpdateWorktreeTitle(Proj, worktreeId, <<"New", " ", "UI">>)
    \/ \E worktreeId \in WorktreeIds : RemoveWorktreeMetadata(Proj, worktreeId)
    \/ GitWorktreeAdd(<<"home", "u", "proj">>, <<"home", "u", "proj", "wt1">>, <<"Default">>)
    \/ RemoveDirectory(<<"home", "u", "proj", "wt1">>)
    \/ listing = {} /\ ListBegin(Proj)
    \/ \E l \in listing : ListGit(l)
    \/ \E l \in listing : ListStat(l)
    \/ \E l \in listing : ListFinish(l)
    \/ \E worktreeId \in WorktreeIds, force \in BOOLEAN :
           listing = {} /\ DeleteWorktree(Proj, worktreeId, force)
    \/ \E l \in listing : DeleteGit(l)

SpecRegistry == Init /\ [][NextRegistry]_vars

\* registrations of projects under their paths and aliases, over time
NextProjects ==
    \/ \E path \in ProjectPaths, name \in Names : AddProject(path, name)
    \/ \E id \in ProjectIds : GetWorktrees(id)
    \/ \E id \in ProjectIds :
           EnsureWorktreeMetadata(id, <<"home", "u", "wt2">>, <<"New", " ", "UI">>)
    \/ \E id \in ProjectIds : UpdateWorktreeTitle(id, DefaultId, <<"New", " ", "UI">>)
    \/ now < MaxProjectNow /\ Elapse(1)

SpecProjects == Init /\ [][NextProjects]_vars

\* listings of one project that overlap, while worktrees come and go
roomToList == Cardinality(listing) < MaxListings

NextListing ==
    \/ AddProject(<<"home", "u", "proj">>, <<>>)
    \/ \E path \in WorktreePaths : GitWorktreeAdd(<<"home", "u", "proj">>, path, <<"feat">>)
    \/ \E path \in WorktreePaths : RemoveDirectory(path)
    \/ \E path \in WorktreePaths :
           kindOf(path) = "dir" /\ EnsureWorktreeMetadata(Proj, path, <<"New", " ", "UI">>)
    \/ roomToList /\ ListBegin(Proj)
    \/ \E l \in listing : ListGit(l)
    \/ \E l \in listing : ListStat(l)
    \/ \E l \in listing : ListFinish(l)

SpecListing == Init /\ [][NextListing]_vars

\* listings of a project whose worktree git lists under its own path or
\* under a path that leads to it through a link, one listing at a time
ListedPaths == {<<"home", "u", "proj", "wt1">>, <<"etc", "back", "wt1">>}

NextAlias ==
    \/ AddProject(<<"home", "u", "proj">>, <<>>)
    \/ \E path \in ListedPaths : GitWorktreeAdd(<<"home", "u", "proj">>, path, <<"feat">>)
    \/ \E path \in WorktreePaths : RemoveDirectory(path)
    \/ \E path \in WorktreePaths :
           kindOf(path) = "dir" /\ EnsureWorktreeMetadata(Proj, path, <<"New", " ", "UI">>)
    \/ listing = {} /\ ListBegin(Proj)
    \/ \E l \in listing : ListGit(l)
    \/ \E l \in listing : ListStat(l)
    \/ \E l \in listing : ListFinish(l)

SpecAlias == Init /\ [][NextAlias]_vars

\* the settings of one project: partial updates with limits below, inside and
\* above the range, whole or not, and reads
RequestedLimits ==
    {whole(0), whole(MIN_PROMPT_LIMIT) - 5, whole(MIN_PROMPT_LIMIT), whole(1500) + 7,
     whole(MAX_PROMPT_LIMIT), whole(MAX_PROMPT_LIMIT) + 9, whole(50000)}

Partials ==
    {[codex |-> [autoPrompt |-> autoPrompt, promptCharLimit |-> promptCharLimit]] :
        autoPrompt \in {<<>>, <<TRUE>>, <<FALSE>>},
        promptCharLimit \in {<<>>} \cup {<<limit>> : limit \in RequestedLimits}}

NextSettings ==
    \/ AddProject(<<"home", "u", "proj">>, <<>>)
    \/ \E id \in {Proj, getGitProjectId(<<"etc", "back">>)}, partial \in Partials :
           UpdateProjectSettings(id, partial)
    \/ \E id \in {Proj, getGitProjectId(<<"etc", "back">>)} : GetProjectSettings(id)

SpecSettings == Init /\ [][NextSettings]_vars

\* the client's store: sessions are created, listed, selected and closed,
\* at most MaxFetches requests at a time
roomToFetch == Cardinality(fetches) < MaxFetches

NextStore ==
    \/ roomToFetch /\ served.next <= MaxServed /\ ClientCreateSession
    \/ \E f \in fetches : ServerCreate(f, TRUE)
    \/ \E f \in fetches : ClientCreateSessionEnd(f)
    \/ roomToFetch /\ LoadSessions
    \/ \E f \in fetches : ServerList(f, TRUE)
    \/ \E f \in fetches : LoadSessionsEnd(f)
    \/ \E id \in 1..MaxServed : roomToFetch /\ ClientCloseSession(id)
    \/ \E f \in fetches, ok \in BOOLEAN : ServerDelete(f, ok)
    \/ \E f \in fetches : ClientCloseSessionEnd(f)
    \/ \E id \in 1..MaxServed : SetActiveSession(id)

SpecStore == Init /\ [][NextStore]_vars

\* persistence: the manager starts on a disk with or without a projects file,
\* loads it, and is asked to change settings and names, to register a
\* project and to shut down, at any moment; at most MaxSaves writes at a time
OnDisk ==
    [id \in {Proj} |->
        [name |-> <<"proj">>, path |-> Cwd, lastAccessed |-> 0,
         worktrees |-> <<[id |-> DefaultId, path |-> Cwd, title |-> <<"default">>]>>,
         settings |-> <<applyDefaultSettings(<<>>)>>]]

InitPersist ==
    /\ sessions = <<>>
    /\ tools = [t \in ToolIds |-> "undefined"]
    /\ creating = EmptyBag
    /\ closing = EmptyBag
    /\ immediates = {}
    /\ ptys = {}
    /\ nextId = 1
    /\ conns = [c \in ConnIds |-> IdleConn]
    /\ now = 0
    /\ issued = {}
    /\ records = <<>>
    /\ idleCheckInterval = TRUE
    /\ projects = <<>>
    /\ wtDirs = {}
    /\ gitWorktrees = <<>>
    /\ listing = {}
    /\ loaded = FALSE
    /\ dirty = FALSE
    /\ configFile \in {<<>>, <<OnDisk>>}
    /\ writing = {}
    /\ loading = [pc |-> "read"]
    /\ StoreInit
    /\ reply = None

roomToSave == Cardinality(writing) < MaxSaves

NextPersist ==
    \/ LoadRead
    \/ \E id \in {Proj} : LoadStat(id)
    \/ LoadSeed
    \/ roomToSave /\ AddProject(Cwd, <<"w">>)
    \/ \E partial \in {[codex |-> [autoPrompt |-> <<FALSE>>, promptCharLimit |-> <<>>]]} :
           roomToSave /\ UpdateProjectSettings(Proj, partial)
    \/ \E name \in {<<>>, <<<<"renamed">>>>} : roomToSave /\ PatchProject(Proj, name)
    \/ roomToSave /\ ShutdownProjectManager
    \/ \E w \in writing : WriteFile(w)

SpecPersist == InitPersist /\ [][NextPersist]_vars

\* the same without the PATCH route: every change made here is marked dirty
NextSaves ==
    \/ LoadRead
    \/ \E id \in {Proj} : LoadStat(id)
    \/ LoadSeed
    \/ roomToSave /\ AddProject(Cwd, <<"w">>)
    \/ \E partial \in {[codex |-> [autoPrompt |-> <<FALSE>>, promptCharLimit |-> <<>>]]} :
           roomToSave /\ UpdateProjectSettings(Proj, partial)
    \/ roomToSave /\ ShutdownProjectManager
    \/ \E w \in writing : WriteFile(w)

SpecSaves == InitPersist /\ [][NextSaves]_vars

FairClose == SpecClose /\ \A id \in Ids : WF_vars(CloseTimeout(id))

(***************************************************************************)
(* Properties.                                                             *)
(***************************************************************************)
CapacityErrors ==
    {"Maximum total sessions reached", "Maximum sessions per project reached"}
\* the errors createSession throws before its first await
SynchronousErrors ==
    CapacityErrors \cup {"Unsupported CLI tool", "not available on this system",
                         "cwd is required"}

atCapacity(projectId) ==
    \/ projectSessions(sessions, projectId) >= MAX_SESSIONS_PER_PROJECT
    \/ Cardinality(DOMAIN sessions) >= MAX_TOTAL_SESSIONS

\* a createSession call for the project passed the checks in this step
admitted(projectId) ==
    \E call \in BagToSet(creating') :
        /\ call.pc = "stat"
        /\ call.projectId = projectId
        /\ CopiesIn(call, creating') > CopiesIn(call, creating)

\* C1: a createSession call made while its project holds MAX_SESSIONS_PER_PROJECT
\* sessions, or the table MAX_TOTAL_SESSIONS, is not admitted: it is answered at
\* once with a capacity error, and the table is left as it was.
C1_CapacityRejects ==
    [][\A projectId \in CapProjects :
          atCapacity(projectId) =>
              /\ ~admitted(projectId)
              /\ (/\ reply'.op = "createSession"
                  /\ reply'.projectId = projectId
                  /\ reply'.outcome \in SynchronousErrors)
                 => (/\ reply'.outcome \in CapacityErrors
                     /\ sessions' = sessions)]_vars

\* C1, witness: the eleventh session of a project was refused after the tenth had
\* been created, and ten remain.
C1_Witness ==
    /\ reply.op = "createSession"
    /\ reply.outcome = "Maximum sessions per project reached"
    /\ projectSessions(sessions, reply.projectId) = MAX_SESSIONS_PER_PROJECT
    /\ nextId > 1

\* C10: no reachable state holds more than MAX_SESSIONS_PER_PROJECT sessions of
\* one project or more than MAX_TOTAL_SESSIONS sessions in total.
C10_NeverOverCapacity ==
    /\ Cardinality(DOMAIN sessions) <= MAX_TOTAL_SESSIONS
    /\ \A projectId \in CapProjects :
          projectSessions(sessions, projectId) <= MAX_SESSIONS_PER_PROJECT

\* the path, with its links resolved, is the home or the temp directory or lies
\* beneath one of them
inSandbox(path) ==
    LET real == realpath(pathResolve(path))
    IN  IsPrefix(realpath(HomeDir), real) \/ IsPrefix(realpath(TmpDir), real)

SandboxError == "cwd must be within the home or temp directory"

C3_FailureLeavesTable ==
    [][(reply'.op = "createSession" /\ reply'.outcome # "ok")
          => (sessions' = sessions /\ ptys' = ptys /\ nextId' = nextId)]_vars

\* C3, witness: the spawn itself failed while the table held a session.
C3_Witness ==
    /\ reply.op = "createSession"
    /\ reply.outcome = "spawn failed"
    /\ Cardinality(DOMAIN sessions) = 1

\* the token carries the signature the server computes over its payload segment,
\* and that payload names the session and had not expired at the given time
admits(token, sessionId, time) ==
    /\ Len(token) >= 2
    /\ token[2] = hmac(WS_SECRET, token[1])
    /\ token[1] \in {encodePayload([sessionId |-> sessionId, exp |-> e]) :
                       e \in time..(MaxNow + TOKEN_TTL)}

\* C4: every connection in a session's attachment set is attached, was admitted
\* for that very session, and presented at its upgrade a token with a valid
\* signature, unexpired at that time, whose payload names the session.
C4_AttachedWereAdmitted ==
    \A id \in DOMAIN sessions : \A c \in sessions[id].sockets :
        /\ conns[c].st = "attached"
        /\ conns[c].sid = id
        /\ admits(conns[c].tok, id, conns[c].at)

\* C4, witness: a connection is attached to the second session, admitted after
\* the clock had advanced, while a token of the first session had expired.
C4_Witness ==
    /\ 2 \in DOMAIN sessions
    /\ \E c \in sessions[2].sockets : conns[c].at = MaxNow
    /\ ~verifySessionToken(generateSessionToken(1, 0), now).valid

\* C5: verifySessionToken accepts exactly the unexpired, unaltered minted tokens:
\* the token just presented was accepted if and only if it is one of the minted
\* tokens and the clock has not passed its expiry, and then the result names
\* the session and the expiry the token was minted with.
C5_VerifyAcceptsExactlyIssued ==
    reply.op = "verify" =>
        /\ reply.result.valid <=>
              (/\ reply.token \in issued
               /\ reply.token[1].b64.json.exp >= now)
        /\ reply.result.valid =>
              (/\ reply.result.sessionId = reply.token[1].b64.json.sessionId
               /\ reply.result.exp = reply.token[1].b64.json.exp)

isData(msg) == msg.type = "data"

\* the chunks of the data messages a connection has received, in order
dataReceived(c) ==
    LET msgs == SelectSeq(conns[c].inbox, isData)
    IN  [i \in 1..Len(msgs) |-> msgs[i].data]

\* the chunks received by connection c among those emitted after the first
\* `from` chunks of its session
receivedAfter(c, from) ==
    SubSeq(dataReceived(c), from - conns[c].since + 1, Len(dataReceived(c)))

\* C6: two connections in the attachment set of one session have received, since
\* the later of them attached, the same sequence of data chunks, and it is the
\* sequence the child emitted since then.
C6_SameDataSequence ==
    \A id \in DOMAIN sessions : \A a, b \in sessions[id].sockets :
        a # b =>
        LET from == IF conns[a].since >= conns[b].since
                    THEN conns[a].since ELSE conns[b].since
            emittedSince == SubSeq(sessions[id].emitted, from + 1,
                                   Len(sessions[id].emitted))
        IN  /\ receivedAfter(a, from) = receivedAfter(b, from)
            /\ receivedAfter(a, from) = emittedSince

\* a connection has just been attached by this step
attaches(c) == conns[c].st = "upgrading" /\ conns'[c].st = "attached"

\* C7 as stated: attach adds the connection to the set of its session and sends
\* it a snapshot message carrying the buffer, then a status message carrying the
\* status, and nothing else.
C7_SnapshotThenStatus ==
    [][\A c \in ConnIds :
          attaches(c) =>
              /\ c \in sessions'[conns[c].sid].sockets
              /\ conns'[c].inbox =
                    <<[type |-> "snapshot", data |-> sessions[conns[c].sid].buffer],
                      [type |-> "status", status |-> sessions[conns[c].sid].status]>>]_vars

\* the position of the first status message of an attached connection
statusAt(c) == IF conns[c].inbox[1].type = "snapshot" THEN 2 ELSE 1

\* C7 as amended: attach adds the connection to the set of its session and sends
\* it a snapshot message carrying the buffer when the buffer is not empty, then
\* a status message carrying the status; these are the first messages of the
\* connection, every data message comes after them, and no snapshot comes later.
C7_SnapshotIfAnyThenStatus ==
    /\ [][\A c \in ConnIds :
             attaches(c) =>
                 /\ c \in sessions'[conns[c].sid].sockets
                 /\ conns'[c].inbox =
                       (IF sessions[conns[c].sid].buffer # <<>>
                        THEN <<[type |-> "snapshot",
                                data |-> sessions[conns[c].sid].buffer]>>
                        ELSE <<>>)
                       \o <<[type |-> "status",
                             status |-> sessions[conns[c].sid].status]>>]_vars
    /\ [](\A c \in ConnIds :
             conns[c].st = "attached" =>
                 /\ Len(conns[c].inbox) >= statusAt(c)
                 /\ conns[c].inbox[statusAt(c)].type = "status"
                 /\ \A i \in 1..Len(conns[c].inbox) :
                       /\ conns[c].inbox[i].type = "data" => i > statusAt(c)
                       /\ conns[c].inbox[i].type = "snapshot" => i = 1)

\* C7, witness: a connection that attached after output had been buffered holds
\* the snapshot, the status and a later data message.
C7_Witness ==
    \E c \in ConnIds :
        /\ conns[c].st = "attached"
        /\ Len(conns[c].inbox) >= 3
        /\ conns[c].inbox[1].type = "snapshot"
        /\ conns[c].inbox[2].type = "status"
        /\ conns[c].inbox[3].type = "data"

attachedTo(id) == {c \in ConnIds : conns[c].st = "attached" /\ conns[c].sid = id}

\* C8: whenever a close of a session of the table is pending, the session is
\* later out of the table with no connection attached to it, whether or not its
\* child ever exits.
C8_CloseEventuallyCleansUp ==
    \A id \in Ids :
        (id \in DOMAIN sessions /\ CopiesIn(id, closing) > 0)
            ~> (id \notin DOMAIN sessions /\ attachedTo(id) = {})

\* C8, witness: the grace timer has removed a session whose child is still alive.
C8_Witness ==
    /\ reply.op = "cleanup"
    /\ reply.removed
    /\ reply.id \in ptys
    /\ reply.id \notin DOMAIN sessions
    /\ \E c \in ConnIds : conns[c].st = "closed"

\* C9: close of an id that is not in the table changes nothing; a session that
\* has left the table never returns to it; a timer that fires for a session
\* already removed touches no session and no connection; and every pending
\* close still has the exit of the child or its own timer ahead of it.
C9_CloseIdempotent ==
    /\ [][(reply'.op = "close" /\ reply'.outcome = "no-op")
             => UNCHANGED <<sessions, closing, conns, ptys, immediates, creating>>]_vars
    /\ [][\A id \in Ids :
             (id < nextId /\ id \notin DOMAIN sessions) => id \notin DOMAIN sessions']_vars
    /\ [][(reply'.op = "cleanup" /\ ~reply'.removed)
             => UNCHANGED <<sessions, conns>>]_vars
    /\ [](\A id \in Ids : CopiesIn(id, closing) > 0 => id \in ptys)

\* C9, witness: a close found its session already removed by the timer of an
\* earlier close, while a third close of that session is still pending and the
\* child is still alive.
C9_Witness ==
    /\ reply.op = "close"
    /\ reply.outcome = "no-op"
    /\ reply.id \in ptys
    /\ CopiesIn(reply.id, closing) > 0

\* position of a status in the life of a session; exited and error are final
rank(status) ==
    CASE status = "starting" -> 0
      [] status = "running" -> 1
      [] status \in {"exited", "error"} -> 2

Live == {"starting", "running"}

\* C11: the status of a record, in the table or not, never moves backwards and
\* never leaves exited or error; a record that is exited or error is out of the
\* table, so that no write and no resize succeeds on it and no connection is
\* attached to it.
C11_StatusForwardOnly ==
    /\ [][\A id \in DOMAIN records :
             /\ id \in DOMAIN records'
             /\ rank(records'[id]) >= rank(records[id])
             /\ rank(records[id]) = 2 => records'[id] = records[id]]_vars
    /\ [](\A id \in DOMAIN sessions :
             sessions[id].status = records[id] /\ records[id] \in Live)
    /\ []((reply.op \in {"write", "resize"} /\ reply.outcome = "ok")
             => records[reply.id] \in Live)
    /\ [](\A c \in ConnIds :
             conns[c].st = "attached" => records[conns[c].sid] \in Live)

\* C11, witness: a write to a session whose child had exited before the first
\* tick was refused, and the callback of that tick has run since the exit.
C11_Witness ==
    /\ reply.op = "write"
    /\ reply.outcome = "Session not found"
    /\ reply.id \in DOMAIN records
    /\ records[reply.id] = "exited"
    /\ reply.id \notin immediates

isSuffix(out, buf) ==
    Len(out) <= Len(buf) /\ out = SubSeq(buf, Len(buf) - Len(out) + 1, Len(buf))

\* the escape sequences of a buffer, as <<first, last>> positions: the escape
\* introducer, parameter bytes, a final byte
sequencesOf(buf) ==
    {p \in (1..Len(buf)) \X (1..Len(buf)) :
        /\ p[1] < p[2]
        /\ buf[p[1]] = ESC
        /\ buf[p[2]] = "m"
        /\ \A k \in (p[1] + 1)..(p[2] - 1) : buf[k] = "1"}

\* the first character kept by a cut at the byte offset
cutoff(buf) == Len(buf) - BUFFER_LIMIT + 1

\* the escape sequences that begin before the cutoff and end at or after it
straddling(buf) == {p \in sequencesOf(buf) : p[1] < cutoff(buf) /\ cutoff(buf) <= p[2]}

\* the position in buf of the first character of its suffix out
startOf(out, buf) == Len(buf) - Len(out) + 1

beginsAtSafePoint(out, buf) ==
    \/ startOf(out, buf) <= Len(buf) /\ buf[startOf(out, buf)] = ESC
    \/ startOf(out, buf) > 1 /\ buf[startOf(out, buf) - 1] \in {NL, CR}

beginsInside(out, buf, p) == p[1] < startOf(out, buf) /\ startOf(out, buf) <= p[2]

after(buf, ch) == {i \in cutoff(buf)..Len(buf) : buf[i] = ch}

least(S) == CHOOSE i \in S : \A j \in S : i <= j

C13_WritesInOrder ==
    /\ [][\A id \in DOMAIN sessions \cap DOMAIN sessions' :
             sessions'[id].stdin =
                IF reply'.op = "write" /\ reply'.outcome = "ok" /\ reply'.id = id
                THEN Append(sessions[id].stdin, reply'.data)
                ELSE sessions[id].stdin]_vars
    /\ [][\A id \in DOMAIN sessions' \ DOMAIN sessions :
             sessions'[id].stdin = <<>>]_vars
    /\ []((reply.op = "write" /\ reply.outcome = "ok") => reply.id \in DOMAIN sessions)

\* C13, witness: a session was written "y" and then, by a connection attached
\* to it, "x", while the other session was written "x" before.
C13_Witness ==
    /\ reply.op = "write"
    /\ reply.outcome = "ok"
    /\ reply.via # 0
    /\ sessions[reply.id].stdin = <<"y", "x">>
    /\ \E id \in DOMAIN sessions : id # reply.id /\ sessions[id].stdin = <<"x">>

\* the sessions the sweep is to close: running, unattached, last active more
\* than the threshold ago
idleSessions ==
    {id \in DOMAIN sessions :
        /\ sessions[id].status = "running"
        /\ sessions[id].sockets = {}
        /\ now - sessions[id].lastActivity > SESSION_IDLE_TIMEOUT}

\* C14: a sweep calls close for exactly the sessions that are running, have no
\* attached connection and were last active more than 48 hours ago, and it
\* changes nothing else; the last activity of a session is the time of its
\* creation or of its latest write or output, whichever came last.
C14_SweepClosesExactlyIdle ==
    /\ [][reply'.op = "sweep"
             => /\ reply'.closed = idleSessions
                /\ closing' = closing (+) SetToBag(idleSessions)
                /\ UNCHANGED <<sessions, conns, ptys>>]_vars
    /\ [][\A id \in DOMAIN sessions \cap DOMAIN sessions' :
             sessions'[id].lastActivity =
                IF \/ reply'.op = "write" /\ reply'.outcome = "ok" /\ reply'.id = id
                   \/ sessions'[id].emitted # sessions[id].emitted
                THEN now
                ELSE sessions[id].lastActivity]_vars
    /\ [][\A id \in DOMAIN sessions' \ DOMAIN sessions :
             sessions'[id].lastActivity = now]_vars

\* C14, witness: a sweep closed one session and spared another that is running
\* and unattached but was written to a day ago.
C14_Witness ==
    /\ reply.op = "sweep"
    /\ reply.closed # {}
    /\ \E id \in DOMAIN sessions :
          /\ id \notin reply.closed
          /\ sessions[id].status = "running"
          /\ sessions[id].sockets = {}
          /\ sessions[id].stdin # <<>>
          /\ now - sessions[id].lastActivity <= SESSION_IDLE_TIMEOUT

\* a data message was broadcast to the sockets of this session by this step
broadcastData(id) ==
    /\ id \in DOMAIN sessions \cap DOMAIN sessions'
    /\ sessions'[id].emitted # sessions[id].emitted

\* C15: when a data message is broadcast to a session and the send to one of its
\* connections fails, that connection leaves the attachment set, the session
\* keeps its place in the table and its status, and every other connection of
\* the set whose transport works receives the message.
C15_FailedSendDropsConnection ==
    [][\A id \in DOMAIN sessions : \A c \in sessions[id].sockets :
          (broadcastData(id) /\ ~conns[c].open)
          => /\ c \notin sessions'[id].sockets
             /\ sessions'[id].status = sessions[id].status
             /\ \A d \in sessions[id].sockets :
                   conns[d].open =>
                      conns'[d].inbox =
                         Append(conns[d].inbox,
                                [type |-> "data",
                                 data |-> sessions'[id].emitted[Len(sessions'[id].emitted)]])]_vars

\* C16: a failed attachment attempt closes the connection with a reason the
\* client can read, and the reason names the cause: missing token, invalid
\* token or session not found.
C16_CloseReasonNamesCause ==
    (reply.op \in {"upgrade", "attach"} /\ reply.outcome # "ok")
    => /\ reply.closed.reason # ""
       /\ reply.outcome = "session not found" <=> reply.closed.reason = "Session not found"

(***************************************************************************)
(* The project registry.                                                   *)
(***************************************************************************)
\* the entries of a worktree list that carry the id "default"
defaults(list) == {i \in 1..Len(list) : list[i].id = DefaultId}

\* exactly one entry of the list has the id "default"; it is at the
\* project's canonical path and is titled "default"
oneDefault(list, projectId) ==
    /\ Cardinality(defaults(list)) = 1
    /\ \A i \in defaults(list) :
           /\ list[i].path = canonicalizePath(projects[projectId].path)
           /\ list[i].title = <<"default">>

\* C17: whatever registry operations came before, the worktree list read
\* for a registered project, by getWorktrees or by the reconciliation
\* listing, has exactly one entry with the id "default", at the project's
\* canonical path and titled "default"; the stored list never holds a
\* second entry with that id, so no generated id is "default".
C17_OneDefaultWorktree ==
    /\ reply.op = "getWorktrees" /\ reply.id \in DOMAIN projects
           => oneDefault(reply.list, reply.id)
    /\ reply.op = "list" /\ reply.outcome = "ok"
           => oneDefault(reply.responses, reply.id)
    /\ \A id \in DOMAIN projects :
           Cardinality(defaults(projects[id].worktrees)) = 1

\* a list is read that holds a worktree whose title slugifies to "default"
C17_Witness ==
    /\ reply.op = "getWorktrees"
    /\ \E i \in 1..Len(reply.list) : reply.list[i].id = <<"default", "-", "2">>
    /\ oneDefault(reply.list, reply.id)

\* the reply of a call that asked to remove the worktree "default" of a
\* registered project, by the route or by the manager
asksToRemoveDefault(r) ==
    /\ r.op \in {"delete", "removeWorktreeMetadata"}
    /\ "worktreeId" \in DOMAIN r
    /\ r.worktreeId = DefaultId
    /\ r.id \in DOMAIN projects

\* the worktree list of a project as getWorktrees reads it
readList(info) == ensureDefaultWorktree(info).worktrees

\* C18: a request to remove the worktree "default" of a registered project
\* is rejected with "Cannot remove default worktree", with the force flag
\* or without it; the route answers 400 without running git worktree
\* remove, and the project's worktree list reads the same before and after.
C18_DefaultNeverRemoved ==
    [][asksToRemoveDefault(reply') =>
          /\ reply'.outcome = "Cannot remove default worktree"
          /\ reply'.op = "delete" => reply'.status = 400 /\ reply'.git = <<>>
          /\ readList(projects'[reply'.id]) = readList(projects[reply'.id])
          /\ UNCHANGED <<wtDirs, gitWorktrees, listing>>]_vars

\* a forced removal of "default" was refused in a project that has another
\* worktree
C18_Witness ==
    /\ reply.op = "delete" /\ reply.worktreeId = DefaultId /\ reply.force
    /\ reply.status = 400
    /\ Len(projects[reply.id].worktrees) > 1

\* the projects registered under a canonical path
registeredAt(table, path) == {i \in DOMAIN table : table[i].path = path}

\* the reply of a registration that went through
registered(r) == r.op = "addProject" /\ r.outcome \in {"added", "existing"}

\* C19: a path that is registered again, under the same name or an alias,
\* gets the project id it got the first time; the table keeps one record
\* per canonical path, with one worktree "default"; and the second
\* registration changes nothing but the record's name, path and
\* last-accessed time.
C19_RegisterTwice ==
    [][registered(reply') =>
          LET path == normalizePath(realpath(normalizePath(reply'.path)))
              id == reply'.id
          IN  /\ registeredAt(projects', path) = {id}
              /\ registeredAt(projects, path) # {} =>
                     /\ registeredAt(projects, path) = {id}
                     /\ reply'.outcome = "existing"
                     /\ DOMAIN projects' = DOMAIN projects
                     /\ readList(projects'[id]) = readList(projects[id])
                     /\ projects'[id] =
                            [projects[id] EXCEPT
                                !.name = projects'[id].name, !.path = path,
                                !.lastAccessed = now,
                                !.worktrees = projects'[id].worktrees]
              /\ Cardinality(defaults(readList(projects'[id]))) = 1
              /\ Cardinality(defaults(projects'[id].worktrees)) = 1
              /\ \A other \in DOMAIN projects \ {id} : projects'[other] = projects[other]]_vars

\* a project that has a second worktree was registered again, later and
\* through a symbolic link
C19_Witness ==
    /\ registered(reply) /\ reply.outcome = "existing"
    /\ reply.path = <<"etc", "back">>
    /\ projects[reply.id].path = <<"home", "u", "proj">>
    /\ projects[reply.id].lastAccessed > 0
    /\ Len(projects[reply.id].worktrees) > 1

\* the entries of a list that are at this path
at(list, path) == {i \in 1..Len(list) : list[i].path = path}

\* C20: when a listing was asked for while the project held metadata of a
\* non-default worktree whose directory had been removed (reply.gone, less
\* the paths created again since), the listing's answer has no entry for
\* that worktree and, once it has answered, the registry holds no metadata
\* for it.
C20_OrphanRemoved ==
    reply.op = "list" /\ reply.outcome = "ok" =>
        \A path \in reply.gone :
            /\ at(reply.responses, path) = {}
            /\ at(projects[reply.id].worktrees, path) = {}

\* C21: the stored promptCharLimit is always within 1000..20000: an update
\* with a larger limit stores 20000, with a smaller one 1000; a field the
\* update omits keeps its value; a project whose settings were never set
\* reports autoPrompt = true and promptCharLimit = 8000.
withinLimits(settings) ==
    /\ settings # <<>>
    /\ settings[1].codex.promptCharLimit[1] >= whole(MIN_PROMPT_LIMIT)
    /\ settings[1].codex.promptCharLimit[1] <= whole(MAX_PROMPT_LIMIT)

stored(asked, old, new) ==
    /\ asked.promptCharLimit = <<>> => new.promptCharLimit = old.promptCharLimit
    /\ asked.autoPrompt = <<>> => new.autoPrompt = old.autoPrompt
    /\ asked.autoPrompt # <<>> => new.autoPrompt = asked.autoPrompt
    /\ asked.promptCharLimit # <<>> =>
          /\ asked.promptCharLimit[1] > whole(MAX_PROMPT_LIMIT)
                => new.promptCharLimit = <<whole(MAX_PROMPT_LIMIT)>>
          /\ asked.promptCharLimit[1] < whole(MIN_PROMPT_LIMIT)
                => new.promptCharLimit = <<whole(MIN_PROMPT_LIMIT)>>
          /\ asked.promptCharLimit[1] \in {whole(MIN_PROMPT_LIMIT), whole(MAX_PROMPT_LIMIT)}
                => new.promptCharLimit = asked.promptCharLimit

Defaults == [codex |-> [autoPrompt |-> <<TRUE>>,
                        promptCharLimit |-> <<whole(DEFAULT_PROMPT_LIMIT)>>]]

C21_PromptLimitClamped ==
    /\ [](\A id \in DOMAIN projects : withinLimits(projects[id].settings))
    /\ [][/\ reply'.op = "updateProjectSettings" /\ reply'.settings # <<>>
              => /\ projects'[reply'.id].settings = reply'.settings
                 /\ stored(reply'.partial.codex, projects[reply'.id].settings[1].codex,
                           reply'.settings[1].codex)
          /\ reply.op = "addProject" /\ reply.outcome = "added"
             /\ reply'.op = "getProjectSettings" /\ reply'.id = reply.id
              => reply'.settings = <<Defaults>>]_vars

\* an update that gives only a limit, above the range, has answered after
\* one that had turned autoPrompt off
C21_Witness ==
    /\ reply.op = "updateProjectSettings"
    /\ reply.settings # <<>>
    /\ reply.partial.codex.promptCharLimit = <<whole(50000)>>
    /\ reply.partial.codex.autoPrompt = <<>>
    /\ reply.settings[1].codex.autoPrompt = <<FALSE>>
    /\ projects[reply.id].settings[1].codex.promptCharLimit = <<whole(MAX_PROMPT_LIMIT)>>

\* C22: closeSession takes the session out of the list at once; when the
\* DELETE fails the session is back at its original index, in the list
\* exactly once (also when a reload has re-added it meanwhile), active again
\* if it was active, and an error is recorded; when the DELETE succeeds the
\* list is left as it is.
occurrences(list, id) == Cardinality({i \in 1..Len(list) : list[i] = id})

putBackAsStated(state, call) ==
    /\ occurrences(state.sessions, call.id) = 1
    /\ findIndex(state.sessions, call.id) = call.removedIndex
    /\ call.removedWasActive => state.activeSessionId = call.id
    /\ state.error # "null"

C22_CloseSessionRollback ==
    [][/\ \A f \in fetches' :
              f.op = "closeSession" /\ (\A g \in fetches : g.n # f.n)
              /\ occurrences(store.sessions, f.id) = 1
                 => occurrences(store'.sessions, f.id) = 0
       /\ reply'.op = "closeSession" /\ reply'.call.removedSession # <<>>
             => IF reply'.call.response = "failed"
                THEN putBackAsStated(store', reply'.call)
                ELSE store' = store]_vars

\* C23: createSession spawns a child only for a tool of the allow-list that
\* the probe has recorded as available; while the probe of the tool has not
\* completed, or after it failed, nothing is spawned for the tool.
C23_SpawnOnlyProbedTools ==
    reply.op = "createSession" /\ reply.outcome = "ok"
        => reply.tool \in ToolIds /\ tools[reply.tool] = "true"

\* C24: when the child of a session exits, every connection attached at that
\* moment (whose transport works) has been sent exactly one exit message,
\* with the exit code, as its last message, and is closed; the session has
\* left the table; a closed connection is in no attachment set and is sent
\* nothing more.
exitsIn(inbox) == Cardinality({i \in 1..Len(inbox) : inbox[i].type = "exit"})

exitLast(inbox, code) ==
    /\ exitsIn(inbox) = 1
    /\ inbox[Len(inbox)] = [type |-> "exit", code |-> code]

detached(c) ==
    /\ DOMAIN sessions' = DOMAIN sessions
    /\ \A id \in DOMAIN sessions :
          /\ sessions'[id] = [sessions[id] EXCEPT !.sockets = @ \ {c}]
          /\ c \notin sessions'[id].sockets
    /\ ptys' = ptys
    /\ \A d \in DOMAIN conns \ {c} : conns'[d] = conns[d]
    /\ conns[c].st = "closed" => sessions' = sessions /\ conns' = conns

C25_DetachOnlyLeavesSet ==
    /\ [][reply'.op = "detach" => detached(reply'.conn)]_vars
    /\ [][\A c \in DOMAIN conns : conns[c].st = "closed" => conns'[c] = conns[c]]_vars

\* the last connection of a running session with output has detached
C25_Witness ==
    /\ reply.op = "detach"
    /\ reply.sid \in DOMAIN sessions
    /\ sessions[reply.sid].sockets = {}
    /\ sessions[reply.sid].status = "running"
    /\ sessions[reply.sid].buffer # <<>>
    /\ reply.sid \in ptys

(***************************************************************************)
(* C26: saveProjects begins a write of the persistence file only when the  *)
(* initial load has finished and a change was marked since the last        *)
(* completed write; while the load has not finished, the file on disk is   *)
(* not changed by any save or shutdown.                                    *)
(***************************************************************************)
writeBegins == \E w \in writing' : w \notin writing

writeCompletes == \E w \in writing : writing' = writing \ {w}

C28_MutationDuringWriteKept ==
    [][writeCompletes => dirty' \/ configFile' = <<persisted(projects')>>]_vars

\* the loss is lasting: nothing is in flight, nothing is marked, and the file
\* differs from the registry
C28_Lost ==
    /\ loaded
    /\ writing = {}
    /\ ~dirty
    /\ configFile # <<>>
    /\ configFile # <<persisted(projects)>>

(***************************************************************************)
(* C30: when the update request of a project that carried a name has       *)
(* answered 200, the projects file holds the project under that name.      *)
(***************************************************************************)
C30_RenamePersisted ==
    (reply.op = "patchProject" /\ reply.status = 200 /\ reply.name # <<>>)
        => /\ configFile # <<>>
           /\ reply.id \in DOMAIN configFile[1]
           /\ configFile[1][reply.id].name = reply.name[1]

(***************************************************************************)
(* C27: for every connection in the attachment set of a session, the       *)
(* snapshot it received followed by the data it received afterwards is a   *)
(* suffix of the whole output of the child so far: the snapshot ends where *)
(* the output stood at the attach, and the data messages are the chunks    *)
(* emitted since the attach, each once and in order.                       *)
(***************************************************************************)
RECURSIVE concat(_)
concat(chunks) == IF chunks = <<>> THEN <<>> ELSE Head(chunks) \o concat(Tail(chunks))

snapshotReceived(c) ==
    IF conns[c].inbox # <<>> /\ conns[c].inbox[1].type = "snapshot"
    THEN conns[c].inbox[1].data
    ELSE <<>>

streamContinues(id, c) ==
    /\ isSuffix(snapshotReceived(c),
                concat(SubSeq(sessions[id].emitted, 1, conns[c].since)))
    /\ dataReceived(c) =
          SubSeq(sessions[id].emitted, conns[c].since + 1, Len(sessions[id].emitted))
    /\ isSuffix(snapshotReceived(c) \o concat(dataReceived(c)),
                concat(sessions[id].emitted))

C27_SnapshotThenDataIsSuffix ==
    \A id \in DOMAIN sessions : \A c \in sessions[id].sockets : streamContinues(id, c)

\* the same for the connections whose transport works
C27_WorkingTransports ==
    \A id \in DOMAIN sessions : \A c \in sessions[id].sockets :
        conns[c].open => streamContinues(id, c)

(***************************************************************************)
(* C29: every record a worktree listing returns is in the registry, under  *)
(* the returned id and title, when the listing returns: a record of the    *)
(* listing's snapshot that was still registered when the loop began, or a  *)
(* record the loop created, is not deleted by the orphan clean-up of that  *)
(* same listing.  The registry is read as getWorktrees reads it.           *)
(***************************************************************************)
holds(list, response) ==
    \E i \in 1..Len(list) :
        list[i].id = response.id /\ list[i].title = response.title

inSnapshot(l, response) ==
    \E i \in 1..Len(l.metadataList) : l.metadataList[i].id = response.id

listingReturns(l) ==
    /\ l \in listing
    /\ l \notin listing'
    /\ l.pc = "loop"
    /\ reply'.op = l.route
    /\ reply'.outcome = "ok"

C29_ListedRecordsKept ==
    [][\A l \in listing :
          listingReturns(l) =>
             \A k \in 1..Len(reply'.responses) :
                (\/ holds(readList(projects[l.id]), reply'.responses[k])
                 \/ ~inSnapshot(l, reply'.responses[k]))
                => holds(readList(projects'[l.id]), reply'.responses[k])]_vars
====
